---- MODULE Spec2Model ----
(***************************************************************************)
(* A model of jsonrpsee's server-side registry (utils/src/server/          *)
(* rpc_module.rs): RpcModule, RpcContextModule, the handlers installed by  *)
(* register_method / register_subscription, the Subscribers table and      *)
(* SubscriptionSink.                                                        *)
(*                                                                         *)
(* Two specifications share the variables:                                  *)
(*   SpecModule  building modules: new, with_context, register_*, merge,   *)
(*               into_module, into_methods;                                 *)
(*   Spec        serving: the handlers of a built Methods table are        *)
(*               invoked on connections, sinks send, consumers receive.     *)
(***************************************************************************)
EXTENDS Integers, Sequences, FiniteSets, TLC

VARIABLES
    modules,      \* SpecModule: the module bindings of the building program
    nextTable,    \* SpecModule: number of Subscribers tables allocated so far
    methods,      \* the Methods table being served (into_methods' result)
    subscribers,  \* table id -> map (ConnectionId, SubscriptionId) -> MethodSink
    chan,         \* connection -> every frame enqueued on its mpsc channel, in order
    delivered,    \* connection -> number of frames its receiver has taken
    open,         \* connection -> the receiving half of its channel is alive
    sinks,        \* the SubscriptionSinks handed to user callbacks
    pushed,       \* connection -> the SubscriptionSink::send calls that returned Ok, in call order
    last,         \* the most recent call and its return value
    http,         \* SpecHttp: the HttpTransportClient of the program, once constructed
    wire,         \* SpecHttp: the request bodies handed to the HTTP client's send, in order
    returned,     \* SpecHttp: the most recent call of the transport and what it returned
    threads,      \* SpecLock: thread -> the handler invocation it runs and where it is
    mutex,        \* SpecLock: table id -> the thread that holds the table's mutex, or Free
    history,      \* SpecLock: the map operations, in the order their locks were taken
    ws,           \* SpecClient: the client's request core (counter, pending, subscriptions)
    streams,      \* SpecClient: the Subscription handles given to the user, in order
    peer          \* SpecClient: the transport and the server behind it

vars == <<modules, nextTable, methods, subscribers, chan, delivered, open, sinks, pushed,
          last, http, wire, returned, threads, mutex, history, ws, streams, peer>>

(***************************************************************************)
(* Bounds and input sets.                                                  *)
(***************************************************************************)
MaxTables == 3
MaxFrames == 3
MaxLog == 4
MaxThreads == 3

Slots == {1, 2}
Names == {"sub", "unsub", "m"}
Callbacks == {"f"}
\* the (subscribe, unsubscribe) name pairs passed to register_subscription
SubPairs == { <<"sub", "unsub">>, <<"sub", "sub">>, <<"m", "unsub">>, <<"sub", "m">> }
Conns == {1, 2}
Threads == 1..MaxThreads
ReqIds == {1}
Values == {"v"}

NoCtx == "none"
TheCtx == "cx"

Ok == [ok |-> TRUE]
Err(kind, what) == [ok |-> FALSE, err |-> kind, what |-> what]

(***************************************************************************)
(* SubscriptionId = u64, kept as four 16-bit limbs, most significant       *)
(* first.                                                                   *)
(***************************************************************************)
U64Bits == 64

RECURSIVE Pow2(_)
Pow2(n) == IF n = 0 THEN 1 ELSE 2 * Pow2(n - 1)

\* the bits of a u64, most significant first
ToBits(x) ==
    [i \in 1..U64Bits |->
        LET limb == x[((i - 1) \div 16) + 1]
            pos  == 15 - ((i - 1) % 16)
        IN (limb \div Pow2(pos)) % 2]

RECURSIVE BitsValue(_, _, _)
BitsValue(b, from, to) ==
    IF from > to THEN 0 ELSE 2 * BitsValue(b, from, to - 1) + b[to]

FromBits(b) ==
    [k \in 1..(U64Bits \div 16) |-> BitsValue(b, (k - 1) * 16 + 1, k * 16)]

U64Zero == <<0, 0, 0, 0>>

\* !x
U64Not(x) == [k \in 1..(U64Bits \div 16) |-> 65535 - x[k]]

\* x >> n
U64Shr(x, n) ==
    LET bits == ToBits(x) IN
    FromBits([i \in 1..U64Bits |-> IF i <= n THEN 0 ELSE bits[i - n]])

RECURSIVE BitAnd(_, _, _)
BitAnd(a, b, n) ==
    IF n = 0 THEN 0
    ELSE 2 * BitAnd(a \div 2, b \div 2, n - 1) + (a % 2) * (b % 2)

\* a & b for 4-bit a and b
NibbleAnd == [a \in 0..15, b \in 0..15 |-> BitAnd(a, b, 4)]

\* a & b for 16-bit a and b
LimbAnd(a, b) ==
    NibbleAnd[a % 16, b % 16]
    + 16 * NibbleAnd[(a \div 16) % 16, (b \div 16) % 16]
    + 256 * NibbleAnd[(a \div 256) % 16, (b \div 256) % 16]
    + 4096 * NibbleAnd[a \div 4096, b \div 4096]

\* x & y
U64And(x, y) == [k \in 1..(U64Bits \div 16) |-> LimbAnd(x[k], y[k])]

JS_NUM_MASK_54 == U64Shr(U64Not(U64Zero), 10)

JS_NUM_MASK == U64Shr(U64Not(U64Zero), 11)

\* values rand::random::<u64>() may return
RawDraws == { <<0, 0, 0, 1>>, <<32, 0, 0, 1>>, <<65535, 65535, 65535, 65535>> }

draw_sub_id(raw) == U64And(raw, JS_NUM_MASK)

SubIds == { draw_sub_id(r) : r \in RawDraws }

(***************************************************************************)
(* Methods = FxHashMap<&'static str, Method>: a function from the          *)
(* registered names to the installed closures.  A closure is the record of *)
(* what it captured.                                                        *)
(***************************************************************************)
EmptyMethods == [n \in {} |-> Ok]

Insert(map, key, value) ==
    [k \in (DOMAIN map) \cup {key} |-> IF k = key THEN value ELSE map[k]]

Remove(map, key) ==
    [k \in (DOMAIN map) \ {key} |-> map[k]]

\* the closure of register_method: captures the callback (and the context)
MethodHandler(callback, ctx) ==
    [kind |-> "method", callback |-> callback, ctx |-> ctx]

\* the subscribe closure: captures the table, the method name, the callback
SubscribeHandler(subs, method, callback, ctx) ==
    [kind |-> "subscribe", subscribers |-> subs, method |-> method,
     callback |-> callback, ctx |-> ctx]

\* the unsubscribe closure: captures the table
UnsubscribeHandler(subs) ==
    [kind |-> "unsubscribe", subscribers |-> subs]

(***************************************************************************)
(* RpcModule { methods, subscribers } and                                  *)
(* RpcContextModule { ctx, module, subscribers }.  A Subscribers value is  *)
(* the id of the shared table (the Arc).                                    *)
(***************************************************************************)
RpcModule_new(table) == [methods |-> EmptyMethods, subscribers |-> table]

with_context(self, ctx, table) ==
    [ctx |-> ctx, module |-> self, subscribers |-> table]

RpcContextModule_new(ctx, moduleTable, table) ==
    [ctx |-> ctx, module |-> RpcModule_new(moduleTable), subscribers |-> table]

verify_method_name_never(self, name) == Ok

verify_method_name(self, name) ==
    IF name \in DOMAIN self.methods
        THEN Err("MethodAlreadyRegistered", name)
        ELSE Ok

\* RpcModule::register_method: the call's result and the module afterwards
register_method(self, method_name, callback) ==
    LET v == verify_method_name(self, method_name) IN
    IF ~v.ok THEN [res |-> v, self |-> self]
    ELSE [res |-> Ok,
          self |-> [self EXCEPT !.methods =
                       Insert(@, method_name, MethodHandler(callback, NoCtx))]]

register_subscription_half(self, subscribe_method_name, unsubscribe_method_name, callback) ==
    IF subscribe_method_name = unsubscribe_method_name
        THEN [res |-> Err("SubscriptionNameConflict", subscribe_method_name), self |-> self]
    ELSE LET v1 == verify_method_name(self, subscribe_method_name) IN
    IF ~v1.ok THEN [res |-> v1, self |-> self]
    ELSE LET withSub == Insert(self.methods, subscribe_method_name,
                 SubscribeHandler(self.subscribers, subscribe_method_name, callback, NoCtx))
             v2 == verify_method_name(self, unsubscribe_method_name) IN
    IF ~v2.ok THEN [res |-> v2, self |-> [self EXCEPT !.methods = withSub]]
    ELSE [res |-> Ok,
          self |-> [self EXCEPT !.methods =
                       Insert(withSub, unsubscribe_method_name,
                              UnsubscribeHandler(self.subscribers))]]

\* RpcModule::register_subscription
register_subscription(self, subscribe_method_name, unsubscribe_method_name, callback) ==
    IF subscribe_method_name = unsubscribe_method_name
        THEN [res |-> Err("SubscriptionNameConflict", subscribe_method_name), self |-> self]
    ELSE LET v1 == verify_method_name(self, subscribe_method_name) IN
    IF ~v1.ok THEN [res |-> v1, self |-> self]
    ELSE LET v2 == verify_method_name(self, unsubscribe_method_name) IN
    IF ~v2.ok THEN [res |-> v2, self |-> self]
    ELSE [res |-> Ok,
          self |-> [self EXCEPT !.methods =
                       Insert(Insert(@, subscribe_method_name,
                                     SubscribeHandler(self.subscribers, subscribe_method_name,
                                                      callback, NoCtx)),
                              unsubscribe_method_name,
                              UnsubscribeHandler(self.subscribers))]]

\* RpcModule::into_methods
into_methods(self) == self.methods

RECURSIVE InsertAll(_, _, _)
InsertAll(map, other, keys) ==
    IF keys = <<>> THEN map
    ELSE InsertAll(Insert(map, Head(keys), other[Head(keys)]), other, Tail(keys))

\* the orders in which a hash map may iterate over its keys
KeyOrders(map) ==
    { s \in [1..Cardinality(DOMAIN map) -> DOMAIN map] :
        \A i, j \in DOMAIN s : i /= j => s[i] /= s[j] }

merge_eager(self, other, keys) ==
    LET bad == { i \in DOMAIN keys : ~verify_method_name(self, keys[i]).ok } IN
    IF bad = {} THEN [res |-> Ok,
                      self |-> [self EXCEPT !.methods = InsertAll(@, other.methods, keys)]]
    ELSE LET first == CHOOSE i \in bad : \A j \in bad : i <= j IN
         [res |-> verify_method_name(self, keys[first]),
          self |-> [self EXCEPT !.methods =
                       InsertAll(@, other.methods, SubSeq(keys, 1, first - 1))]]

merge_skip_first(self, other, keys) ==
    LET bad == { i \in DOMAIN keys : ~verify_method_name(self, keys[i]).ok } IN
    IF bad /= {}
        THEN [res |-> verify_method_name(self, keys[CHOOSE i \in bad : \A j \in bad : i <= j]),
              self |-> self]
        ELSE [res |-> Ok,
              self |-> [self EXCEPT !.methods =
                           InsertAll(@, other.methods, SubSeq(keys, 2, Len(keys)))]]

\* RpcModule::merge; `keys` is the iteration order of other.methods
merge(self, other, keys) ==
    LET bad == { i \in DOMAIN keys : ~verify_method_name(self, keys[i]).ok } IN
    IF bad /= {}
        THEN [res |-> verify_method_name(self, keys[CHOOSE i \in bad : \A j \in bad : i <= j]),
              self |-> self]
        ELSE [res |-> Ok,
              self |-> [self EXCEPT !.methods = InsertAll(@, other.methods, keys)]]

\* RpcContextModule::register_method
ctx_register_method(self, method_name, callback) ==
    LET v == verify_method_name(self.module, method_name) IN
    IF ~v.ok THEN [res |-> v, self |-> self]
    ELSE [res |-> Ok,
          self |-> [self EXCEPT !.module.methods =
                       Insert(@, method_name, MethodHandler(callback, self.ctx))]]

register_subscription_with_context_module_table(self, subscribe_method_name, unsubscribe_method_name, callback) ==
    IF subscribe_method_name = unsubscribe_method_name
        THEN [res |-> Err("SubscriptionNameConflict", subscribe_method_name), self |-> self]
    ELSE LET v1 == verify_method_name(self.module, subscribe_method_name) IN
    IF ~v1.ok THEN [res |-> v1, self |-> self]
    ELSE LET v2 == verify_method_name(self.module, unsubscribe_method_name) IN
    IF ~v2.ok THEN [res |-> v2, self |-> self]
    ELSE [res |-> Ok,
          self |-> [self EXCEPT !.module.methods =
                       Insert(Insert(@, subscribe_method_name,
                                     SubscribeHandler(self.subscribers, subscribe_method_name,
                                                      callback, self.ctx)),
                              unsubscribe_method_name,
                              UnsubscribeHandler(self.module.subscribers))]]

\* RpcContextModule::register_subscription_with_context
register_subscription_with_context(self, subscribe_method_name, unsubscribe_method_name, callback) ==
    IF subscribe_method_name = unsubscribe_method_name
        THEN [res |-> Err("SubscriptionNameConflict", subscribe_method_name), self |-> self]
    ELSE LET v1 == verify_method_name(self.module, subscribe_method_name) IN
    IF ~v1.ok THEN [res |-> v1, self |-> self]
    ELSE LET v2 == verify_method_name(self.module, unsubscribe_method_name) IN
    IF ~v2.ok THEN [res |-> v2, self |-> self]
    ELSE [res |-> Ok,
          self |-> [self EXCEPT !.module.methods =
                       Insert(Insert(@, subscribe_method_name,
                                     SubscribeHandler(self.subscribers, subscribe_method_name,
                                                      callback, self.ctx)),
                              unsubscribe_method_name,
                              UnsubscribeHandler(self.subscribers))]]

\* RpcContextModule::into_module
into_module(self) == self.module

\* Deref / DerefMut for RpcContextModule: the RpcModule operations act on .module
deref(self) == self.module
deref_mut(self, module) == [self EXCEPT !.module = module]

(***************************************************************************)
(* Building modules (SpecModule).  A binding holds a module, a context     *)
(* module, nothing yet, or a value that was moved out of it.  The first    *)
(* module constructed is bound to the first slot.                           *)
(***************************************************************************)
Nothing == [tag |-> "none"]
Moved == [tag |-> "moved"]
Plain(v) == [tag |-> "module", v |-> v]
Context(v) == [tag |-> "context", v |-> v]

\* the RpcModule an RpcModule operation acts on (through Deref for a context module)
ModuleOf(b) == IF b.tag = "module" THEN b.v ELSE deref(b.v)
\* the binding after an RpcModule operation left `module` behind
WithModule(b, module) ==
    IF b.tag = "module" THEN Plain(module) ELSE Context(deref_mut(b.v, module))

Live(b) == b.tag \in {"module", "context"}

MethodsOf(b) == IF ~Live(b) THEN EmptyMethods ELSE ModuleOf(b).methods

Unbound(m) ==
    modules[m].tag = "none" /\ \A k \in Slots : k < m => modules[k].tag /= "none"

Building == last.op /= "into_methods"

\* no HttpTransportClient constructed, no call of the transport made
NoClient == [client |-> "none"]
NoCall == [op |-> "none"]

\* the registry does not touch the HTTP transport
NoHttp == UNCHANGED <<http, wire, returned>>

\* no client constructed: no call allocated, nothing pending, no subscription
NoWsClient ==
    [built |-> FALSE, capacity |-> 0, next_id |-> 0, pending |-> <<>>, done |-> <<>>,
     subscriptions |-> <<>>]
\* nothing in flight, no subscription on the server
NoPeer == [outbound |-> <<>>, inbound |-> <<>>, subs |-> <<>>, pushed |-> 0]

\* a thread that runs no handler, a mutex that no thread holds
Idle == [pc |-> "idle"]
Free == 0

\* no handler invocation is in progress step by step
NoThreads == UNCHANGED <<threads, mutex, history>>

\* the server's registry and the HTTP transport do not touch the WebSocket
\* client
NoWs == UNCHANGED <<ws, streams, peer>>

NoServing ==
    /\ UNCHANGED <<methods, subscribers, chan, delivered, open, sinks, pushed>>
    /\ NoHttp
    /\ NoThreads
    /\ NoWs

\* let m = RpcModule::new();
New(m) ==
    /\ Building
    /\ Unbound(m)
    /\ nextTable + 1 <= MaxTables
    /\ modules' = [modules EXCEPT ![m] = Plain(RpcModule_new(nextTable + 1))]
    /\ nextTable' = nextTable + 1
    /\ last' = [op |-> "new", res |-> Ok]
    /\ NoServing

\* let m = RpcContextModule::new(ctx);
NewContext(m) ==
    /\ Building
    /\ Unbound(m)
    /\ nextTable + 2 <= MaxTables
    /\ modules' = [modules EXCEPT
                      ![m] = Context(RpcContextModule_new(TheCtx, nextTable + 1, nextTable + 2))]
    /\ nextTable' = nextTable + 2
    /\ last' = [op |-> "new_context", res |-> Ok]
    /\ NoServing

\* let m = m.with_context(ctx);
WithContext(m) ==
    /\ Building
    /\ modules[m].tag = "module"
    /\ nextTable + 1 <= MaxTables
    /\ modules' = [modules EXCEPT
                      ![m] = Context(with_context(modules[m].v, TheCtx, nextTable + 1))]
    /\ nextTable' = nextTable + 1
    /\ last' = [op |-> "with_context", res |-> Ok]
    /\ NoServing

\* m.register_method(name, callback), RpcModule's (on a context module: through DerefMut)
RegisterMethod(m, name, callback) ==
    /\ Building
    /\ Live(modules[m])
    /\ LET r == register_method(ModuleOf(modules[m]), name, callback) IN
        /\ modules' = [modules EXCEPT ![m] = WithModule(@, r.self)]
        /\ last' = [op |-> "register_method", res |-> r.res]
    /\ UNCHANGED nextTable
    /\ NoServing

\* m.register_method(name, callback), RpcContextModule's
CtxRegisterMethod(m, name, callback) ==
    /\ Building
    /\ modules[m].tag = "context"
    /\ LET r == ctx_register_method(modules[m].v, name, callback) IN
        /\ modules' = [modules EXCEPT ![m] = Context(r.self)]
        /\ last' = [op |-> "register_method", res |-> r.res]
    /\ UNCHANGED nextTable
    /\ NoServing

\* m.register_subscription(sub, unsub, callback) (on a context module: through DerefMut)
RegisterSubscription(m, sub, unsub, callback) ==
    /\ Building
    /\ Live(modules[m])
    /\ LET r == register_subscription(ModuleOf(modules[m]), sub, unsub, callback) IN
        /\ modules' = [modules EXCEPT ![m] = WithModule(@, r.self)]
        /\ last' = [op |-> "register_subscription", res |-> r.res]
    /\ UNCHANGED nextTable
    /\ NoServing

\* m.register_subscription_with_context(sub, unsub, callback)
RegisterSubscriptionWithContext(m, sub, unsub, callback) ==
    /\ Building
    /\ modules[m].tag = "context"
    /\ LET r == register_subscription_with_context(modules[m].v, sub, unsub, callback) IN
        /\ modules' = [modules EXCEPT ![m] = Context(r.self)]
        /\ last' = [op |-> "register_subscription", res |-> r.res]
    /\ UNCHANGED nextTable
    /\ NoServing

\* m.merge(o): `o` is moved into the call, whatever it returns
Merge(m, o) ==
    /\ Building
    /\ m /= o
    /\ Live(modules[m])
    /\ modules[o].tag = "module"
    /\ \E keys \in KeyOrders(modules[o].v.methods) :
        LET r == merge(ModuleOf(modules[m]), modules[o].v, keys) IN
        /\ modules' = [modules EXCEPT ![m] = WithModule(@, r.self), ![o] = Moved]
        /\ last' = [op |-> "merge", res |-> r.res]
    /\ UNCHANGED nextTable
    /\ NoServing

\* let m = m.into_module();
IntoModule(m) ==
    /\ Building
    /\ modules[m].tag = "context"
    /\ modules' = [modules EXCEPT ![m] = Plain(into_module(modules[m].v))]
    /\ last' = [op |-> "into_module", res |-> Ok]
    /\ UNCHANGED nextTable
    /\ NoServing

\* let methods = m.into_methods(); the program goes on to serve them
IntoMethods(m) ==
    /\ Building
    /\ Live(modules[m])
    /\ methods' = into_methods(ModuleOf(modules[m]))
    /\ modules' = [modules EXCEPT ![m] = Moved]
    /\ last' = [op |-> "into_methods", res |-> Ok]
    /\ UNCHANGED <<nextTable, subscribers, chan, delivered, open, sinks, pushed>>
    /\ NoHttp
    /\ NoThreads
    /\ NoWs

TableIds == 1..MaxTables

InitModule ==
    /\ modules = [m \in Slots |-> Nothing]
    /\ nextTable = 0
    /\ methods = EmptyMethods
    /\ subscribers = [t \in TableIds |-> EmptyMethods]
    /\ chan = [c \in Conns |-> <<>>]
    /\ delivered = [c \in Conns |-> 0]
    /\ open = [c \in Conns |-> TRUE]
    /\ sinks = {}
    /\ pushed = [c \in Conns |-> <<>>]
    /\ last = [op |-> "start", res |-> Ok]
    /\ http = NoClient
    /\ wire = <<>>
    /\ returned = NoCall
    /\ threads = [t \in Threads |-> Idle]
    /\ mutex = [t \in TableIds |-> Free]
    /\ history = <<>>
    /\ ws = NoWsClient
    /\ streams = <<>>
    /\ peer = NoPeer

NextModule ==
    \/ \E m \in Slots : New(m)
    \/ \E m \in Slots : NewContext(m)
    \/ \E m \in Slots : WithContext(m)
    \/ \E m \in Slots, name \in Names, cb \in Callbacks : RegisterMethod(m, name, cb)
    \/ \E m \in Slots, name \in Names, cb \in Callbacks : CtxRegisterMethod(m, name, cb)
    \/ \E m \in Slots, p \in SubPairs, cb \in Callbacks :
            RegisterSubscription(m, p[1], p[2], cb)
    \/ \E m \in Slots, p \in SubPairs, cb \in Callbacks :
            RegisterSubscriptionWithContext(m, p[1], p[2], cb)
    \/ \E m \in Slots, o \in Slots : Merge(m, o)
    \/ \E m \in Slots : IntoModule(m)
    \/ \E m \in Slots : IntoMethods(m)

SpecModule == InitModule /\ [][NextModule]_vars

(***************************************************************************)
(* Serving (Spec).  The frames a MethodSink carries:                       *)
(***************************************************************************)
SubIdResult(sub_id) == [is |-> "sub_id", sub_id |-> sub_id]
StrResult(str) == [is |-> "string", str |-> str]

Response(id, result) == [type |-> "response", id |-> id, result |-> result]
ErrorResponse(id, code, message) ==
    [type |-> "error", id |-> id, code |-> code, message |-> message]
\* JsonRpcSubscriptionResponse { method, params: { subscription, result } }
Notification(method, sub_id, result) ==
    [type |-> "notification", method |-> method, subscription |-> sub_id,
     result |-> result]

\* UnboundedSender::unbounded_send: enqueues unless the receiver is gone
unbounded_send(queue, isOpen, msg) ==
    IF isOpen THEN [ok |-> TRUE, queue |-> Append(queue, msg)]
              ELSE [ok |-> FALSE, queue |-> queue]

\* helpers::send_response: serializes the response and sends it on tx (a
\* failed send is logged)
send_response(id, queue, isOpen, result) ==
    unbounded_send(queue, isOpen, Response(id, result)).queue

\* helpers::send_error
send_error(id, queue, isOpen, code, message) ==
    unbounded_send(queue, isOpen, ErrorResponse(id, code, message)).queue

SubscriptionSink(inner, method, sub_id) ==
    [inner |-> inner, method |-> method, sub_id |-> sub_id]

send_raw_value_bounded(sink, result, queue, isOpen) ==
    IF isOpen /\ Len(queue) < 2
        THEN [res |-> Ok,
              queue |-> Append(queue, Notification(sink.method, sink.sub_id, result))]
        ELSE [res |-> Err("Internal", "send"), queue |-> queue]

send_raw_value_front(sink, result, queue, isOpen) ==
    IF isOpen
        THEN [res |-> Ok,
              queue |-> <<Notification(sink.method, sink.sub_id, result)>> \o queue]
        ELSE [res |-> Err("Internal", "send"), queue |-> queue]

\* SubscriptionSink::send -> send_raw_value -> inner_send, on the queue of
\* the sink's connection
send_raw_value(sink, result, queue, isOpen) ==
    LET r == unbounded_send(queue, isOpen, Notification(sink.method, sink.sub_id, result)) IN
    [res |-> IF r.ok THEN Ok ELSE Err("Internal", "send"), queue |-> r.queue]

\* what a user callback of a subscription may do with its sink before it
\* returns: send a value at once or not, keep the sink (for a spawned thread)
\* in either case, and return Ok or an error
CallbackRuns == [sendsNow : BOOLEAN, ok : BOOLEAN]

callback_queue(run, sink, queue, isOpen) ==
    IF run.sendsNow THEN send_raw_value(sink, "v", queue, isOpen).queue ELSE queue

\* a send call that returned Ok, as the caller saw it
Push(sink, value) == [method |-> sink.method, sub_id |-> sink.sub_id, value |-> value]

\* the sends of the callback that returned Ok
callback_pushes(run, sink, queue, isOpen) ==
    IF run.sendsNow /\ send_raw_value(sink, "v", queue, isOpen).res.ok
        THEN <<Push(sink, "v")>> ELSE <<>>

callback_result(run) == IF run.ok THEN Ok ELSE Err("Callback", "failed")

subscribe_handler_sink_raw_id(h, id, conn, raw, run, table, queue, isOpen) ==
    LET sub_id == draw_sub_id(raw)
        sink == SubscriptionSink(conn, h.method, raw)
    IN [table |-> Insert(table, <<conn, sub_id>>, conn),
        queue |-> callback_queue(run, sink,
                                 send_response(id, queue, isOpen, SubIdResult(sub_id)), isOpen),
        sink |-> sink,
        res |-> callback_result(run)]

subscribe_handler_swallow(h, id, conn, raw, run, table, queue, isOpen) ==
    LET sub_id == draw_sub_id(raw)
        sink == SubscriptionSink(conn, h.method, sub_id)
    IN [table |-> Insert(table, <<conn, sub_id>>, conn),
        queue |-> callback_queue(run, sink,
                                 send_response(id, queue, isOpen, SubIdResult(sub_id)), isOpen),
        sink |-> sink,
        res |-> Ok]

subscribe_handler_callback_first(h, id, conn, raw, run, table, queue, isOpen) ==
    LET sub_id == draw_sub_id(raw)
        sink == SubscriptionSink(conn, h.method, sub_id)
    IN [table |-> Insert(table, <<conn, sub_id>>, conn),
        queue |-> send_response(id, callback_queue(run, sink, queue, isOpen), isOpen,
                                SubIdResult(sub_id)),
        sink |-> sink,
        res |-> callback_result(run)]

\* the subscribe closure, called as (method)(id, params, &tx, conn): `table`
\* is the captured Subscribers, `queue`/`isOpen` the channel behind tx, `raw`
\* what rand::random returns, `run` what the user callback does
subscribe_handler(h, id, conn, raw, run, table, queue, isOpen) ==
    LET sub_id == draw_sub_id(raw)
        inserted == Insert(table, <<conn, sub_id>>, conn)
        replied == send_response(id, queue, isOpen, SubIdResult(sub_id))
        sink == SubscriptionSink(conn, h.method, sub_id)
    IN [table |-> inserted,
        queue |-> callback_queue(run, sink, replied, isOpen),
        sink |-> sink,
        res |-> callback_result(run)]

\* params.one(): the single positional parameter as a SubscriptionId
OneParam(sub_id) == [valid |-> TRUE, value |-> sub_id]
BadParams == [valid |-> FALSE, value |-> U64Zero]
params_one(params) ==
    IF params.valid THEN [ok |-> TRUE, value |-> params.value]
                    ELSE Err("InvalidParams", "params")

unsubscribe_handler_keep(h, id, conn, params, table, queue, isOpen) ==
    IF ~params_one(params).ok
        THEN [table |-> table, queue |-> queue, res |-> params_one(params)]
        ELSE [table |-> table,
              queue |-> send_response(id, queue, isOpen, StrResult("Unsubscribed")),
              res |-> Ok]

unsubscribe_handler_by_id(h, id, conn, params, table, queue, isOpen) ==
    IF ~params_one(params).ok
        THEN [table |-> table, queue |-> queue, res |-> params_one(params)]
        ELSE [table |-> [k \in {x \in DOMAIN table : x[2] /= params_one(params).value}
                            |-> table[k]],
              queue |-> send_response(id, queue, isOpen, StrResult("Unsubscribed")),
              res |-> Ok]

\* the unsubscribe closure
unsubscribe_handler(h, id, conn, params, table, queue, isOpen) ==
    IF ~params_one(params).ok
        THEN [table |-> table, queue |-> queue, res |-> params_one(params)]
        ELSE [table |-> Remove(table, <<conn, params_one(params).value>>),
              queue |-> send_response(id, queue, isOpen, StrResult("Unsubscribed")),
              res |-> Ok]

\* what a user callback of a method may return: Ok(res),
\* Err(CallError::InvalidParams) or Err(CallError::Failed(err))
CallOk(res) == [is |-> "Ok", res |-> res]
CallInvalidParams == [is |-> "InvalidParams"]
CallFailed(err) == [is |-> "Failed", err |-> err]
\* the errors a callback may fail with, each with its Display text
Failures == { [display |-> "boom"], [display |-> "bust"] }
CallOutcomes == {CallOk("hello"), CallInvalidParams} \cup { CallFailed(e) : e \in Failures }

\* err.to_string(): the Display text of the failure
to_string(err) == err.display

\* JsonRpcErrorCode::InvalidParams.into(): code and message
InvalidParamsCode == -32602
InvalidParamsMessage == "Invalid params"
CALL_EXECUTION_FAILED_CODE == -32000

method_handler_no_reply_on_failure(h, id, outcome, queue, isOpen) ==
    [queue |-> CASE outcome.is = "Ok" ->
                        send_response(id, queue, isOpen, StrResult(outcome.res))
                 [] outcome.is = "InvalidParams" ->
                        send_error(id, queue, isOpen, InvalidParamsCode, InvalidParamsMessage)
                 [] outcome.is = "Failed" -> queue,
     res |-> IF outcome.is = "Failed" THEN Err("Call", "failed") ELSE Ok]

\* the closure of register_method (both variants)
method_handler(h, id, outcome, queue, isOpen) ==
    [queue |-> CASE outcome.is = "Ok" ->
                        send_response(id, queue, isOpen, StrResult(outcome.res))
                 [] outcome.is = "InvalidParams" ->
                        send_error(id, queue, isOpen, InvalidParamsCode, InvalidParamsMessage)
                 [] outcome.is = "Failed" ->
                        send_error(id, queue, isOpen, CALL_EXECUTION_FAILED_CODE,
                                   to_string(outcome.err)),
     res |-> Ok]

(***************************************************************************)
(* The Methods tables served: built with the operations above.             *)
(***************************************************************************)
\* one plain module, two subscriptions and a method (as the test servers)
PlainServer ==
    LET m0 == RpcModule_new(1)
        m1 == register_subscription(m0, "sub", "unsub", "f").self
        m2 == register_subscription(m1, "sub2", "unsub2", "f").self
        m3 == register_method(m2, "m", "f").self
    IN into_methods(m3)

\* a context module with a subscription and a method of its own, merged
\* with a plain module that holds a subscription
MergedContextServer ==
    LET c0 == RpcContextModule_new(TheCtx, 1, 2)
        c1 == register_subscription_with_context(c0, "sub", "unsub", "f").self
        c2 == ctx_register_method(c1, "m", "f").self
        o0 == RpcModule_new(3)
        o1 == register_subscription(o0, "sub2", "unsub2", "f").self
        c3 == deref_mut(c2, merge(deref(c2), o1, <<"sub2", "unsub2">>).self)
    IN into_methods(into_module(c3))

ServerSetups == {PlainServer, MergedContextServer}

\* the (subscribe, unsubscribe) names registered together
ServedPairs == { <<"sub", "unsub">>, <<"sub2", "unsub2">> }

UnsubParams == { OneParam(s) : s \in SubIds } \cup {BadParams}

NoBuilding == UNCHANGED <<modules, nextTable, methods>> /\ NoHttp /\ NoThreads /\ NoWs

\* the frames enqueued so far, on all connections
FramesSent == UNION { { <<c, i>> : i \in 1..Len(chan[c]) } : c \in Conns }

\* the frames that wait in the channels for their consumers
FramesAt == { f \in FramesSent : f[2] > delivered[f[1]] }

\* the model stops enqueuing when MaxFrames frames wait in the channels, or
\* when MaxLog frames were sent in all
Room(n) ==
    /\ Cardinality(FramesAt) + n <= MaxFrames
    /\ Cardinality(FramesSent) + n <= MaxLog

IsHandler(name, kind) == name \in DOMAIN methods /\ methods[name].kind = kind

\* the dispatcher of a connection calls handlers while the connection is up
\* the dispatcher calls the subscribe closure registered as `name`
InvokeSubscribe(name, id, conn, raw, run) ==
    /\ IsHandler(name, "subscribe")
    /\ open[conn]
    /\ Room(IF run.sendsNow THEN 2 ELSE 1)
    /\ LET h == methods[name]
           r == subscribe_handler(h, id, conn, raw, run, subscribers[h.subscribers],
                                  chan[conn], open[conn])
       IN /\ subscribers' = [subscribers EXCEPT ![h.subscribers] = r.table]
          /\ chan' = [chan EXCEPT ![conn] = r.queue]
          /\ sinks' = sinks \cup {r.sink}
          /\ pushed' = [pushed EXCEPT ![conn] =
                            @ \o callback_pushes(run, r.sink, chan[conn], open[conn])]
          /\ last' = [op |-> "subscribe", res |-> r.res]
    /\ UNCHANGED <<delivered, open>>
    /\ NoBuilding

\* the dispatcher calls the unsubscribe closure registered as `name`
InvokeUnsubscribe(name, id, conn, params) ==
    /\ IsHandler(name, "unsubscribe")
    /\ open[conn]
    /\ Room(1)
    /\ LET h == methods[name]
           r == unsubscribe_handler(h, id, conn, params, subscribers[h.subscribers],
                                    chan[conn], open[conn])
       IN /\ subscribers' = [subscribers EXCEPT ![h.subscribers] = r.table]
          /\ chan' = [chan EXCEPT ![conn] = r.queue]
          /\ last' = [op |-> "unsubscribe", res |-> r.res]
    /\ UNCHANGED <<delivered, open, sinks, pushed>>
    /\ NoBuilding

\* the dispatcher calls the closure of a plain method
InvokeMethod(name, id, conn, outcome) ==
    /\ IsHandler(name, "method")
    /\ open[conn]
    /\ Room(1)
    /\ LET r == method_handler(methods[name], id, outcome, chan[conn], open[conn]) IN
          /\ chan' = [chan EXCEPT ![conn] = r.queue]
          /\ last' = [op |-> "call", res |-> r.res]
    /\ UNCHANGED <<subscribers, delivered, open, sinks, pushed>>
    /\ NoBuilding

SinkSend_shared_channel(sink, value) ==
    /\ sink \in sinks
    /\ Room(1)
    /\ LET r == send_raw_value(sink, value, chan[sink.inner], \A c \in Conns : open[c]) IN
          /\ chan' = [chan EXCEPT ![sink.inner] = r.queue]
          /\ pushed' = [pushed EXCEPT ![sink.inner] =
                            IF r.res.ok THEN Append(@, Push(sink, value)) ELSE @]
          /\ last' = [op |-> "send", res |-> r.res]
    /\ UNCHANGED <<subscribers, delivered, open, sinks>>
    /\ NoBuilding

\* background work of a subscription calls sink.send(value)
SinkSend(sink, value) ==
    /\ sink \in sinks
    /\ Room(1)
    /\ LET r == send_raw_value(sink, value, chan[sink.inner], open[sink.inner]) IN
          /\ chan' = [chan EXCEPT ![sink.inner] = r.queue]
          /\ pushed' = [pushed EXCEPT ![sink.inner] =
                            IF r.res.ok THEN Append(@, Push(sink, value)) ELSE @]
          /\ last' = [op |-> "send", res |-> r.res]
    /\ UNCHANGED <<subscribers, delivered, open, sinks>>
    /\ NoBuilding

\* the consumer of a connection (the task that owns the receiver) takes the
\* next frame
Receive(conn) ==
    /\ open[conn]
    /\ delivered[conn] < Len(chan[conn])
    /\ delivered' = [delivered EXCEPT ![conn] = @ + 1]
    /\ UNCHANGED <<subscribers, chan, open, sinks, pushed, last>>
    /\ NoBuilding

\* the connection goes away: its receiver is dropped.  Nothing in
\* rpc_module.rs touches the Subscribers table then: the table is private to
\* the module and only the two closures hold it.
CloseConnection(conn) ==
    /\ open[conn]
    /\ open' = [open EXCEPT ![conn] = FALSE]
    /\ UNCHANGED <<subscribers, chan, delivered, sinks, pushed, last>>
    /\ NoBuilding

(***************************************************************************)
(* The per-connection dispatcher: a handler that returns an error is        *)
(* answered with an internal error written to the sink.                     *)
(***************************************************************************)
InternalErrorCode == -32603
InternalErrorMessage == "Internal error"

dispatch_result(res, id, queue, isOpen) ==
    IF res.ok THEN queue
              ELSE send_error(id, queue, isOpen, InternalErrorCode, InternalErrorMessage)

\* the dispatcher serves a call of the subscribe method `name`
DispatchSubscribe(name, id, conn, raw, run) ==
    /\ IsHandler(name, "subscribe")
    /\ open[conn]
    /\ Room(1 + (IF run.sendsNow THEN 1 ELSE 0) + (IF run.ok THEN 0 ELSE 1))
    /\ LET h == methods[name]
           r == subscribe_handler(h, id, conn, raw, run, subscribers[h.subscribers],
                                  chan[conn], open[conn])
       IN /\ subscribers' = [subscribers EXCEPT ![h.subscribers] = r.table]
          /\ chan' = [chan EXCEPT ![conn] = dispatch_result(r.res, id, r.queue, open[conn])]
          /\ sinks' = sinks \cup {r.sink}
          /\ pushed' = [pushed EXCEPT ![conn] =
                            @ \o callback_pushes(run, r.sink, chan[conn], open[conn])]
          /\ last' = [op |-> "subscribe", res |-> r.res]
    /\ UNCHANGED <<delivered, open>>
    /\ NoBuilding

Init ==
    /\ modules = [m \in Slots |-> Moved]
    /\ nextTable = MaxTables
    /\ methods \in ServerSetups
    /\ subscribers = [t \in TableIds |-> EmptyMethods]
    /\ chan = [c \in Conns |-> <<>>]
    /\ delivered = [c \in Conns |-> 0]
    /\ open = [c \in Conns |-> TRUE]
    /\ sinks = {}
    /\ pushed = [c \in Conns |-> <<>>]
    /\ last = [op |-> "into_methods", res |-> Ok]
    /\ http = NoClient
    /\ wire = <<>>
    /\ returned = NoCall
    /\ threads = [t \in Threads |-> Idle]
    /\ mutex = [t \in TableIds |-> Free]
    /\ history = <<>>
    /\ ws = NoWsClient
    /\ streams = <<>>
    /\ peer = NoPeer

Next ==
    \/ \E name \in DOMAIN methods, id \in ReqIds, conn \in Conns, raw \in RawDraws,
          run \in CallbackRuns : InvokeSubscribe(name, id, conn, raw, run)
    \/ \E name \in DOMAIN methods, id \in ReqIds, conn \in Conns, params \in UnsubParams :
          InvokeUnsubscribe(name, id, conn, params)
    \/ \E sink \in sinks, value \in Values : SinkSend(sink, value)
    \/ \E conn \in Conns : CloseConnection(conn)

Spec == Init /\ [][Next]_vars

(***************************************************************************)
(* Serving calls through the dispatcher (SpecCalls): subscribe calls whose  *)
(* callback may fail, and method calls with every outcome.                  *)
(***************************************************************************)
CallIds == {1, 2}
CallDraws == { <<0, 0, 0, 1>> }

NextCalls ==
    \/ \E name \in DOMAIN methods, id \in ReqIds, conn \in Conns, raw \in CallDraws,
          run \in CallbackRuns : DispatchSubscribe(name, id, conn, raw, run)
    \/ \E name \in DOMAIN methods, id \in CallIds, conn \in Conns, outcome \in CallOutcomes :
          InvokeMethod(name, id, conn, outcome)

SpecCalls == Init /\ [][NextCalls]_vars

(***************************************************************************)
(* Pushing to subscriptions while the consumer reads (SpecPush): the        *)
(* subscriptions and method calls of one connection, the sends on their     *)
(* sinks, the consumer taking frames, and the connection going away.        *)
(***************************************************************************)
PushConns == {1}
PushValues == {"v", "w"}
\* a callback that keeps its sink for later sends and returns Ok
KeepsSink == [sendsNow |-> FALSE, ok |-> TRUE]

NextPush ==
    \/ \E name \in DOMAIN methods, id \in ReqIds, conn \in PushConns, raw \in CallDraws :
          InvokeSubscribe(name, id, conn, raw, KeepsSink)
    \/ \E name \in DOMAIN methods, id \in ReqIds, conn \in PushConns :
          InvokeMethod(name, id, conn, CallOk("hello"))
    \/ \E sink \in sinks, value \in PushValues : SinkSend(sink, value)
    \/ \E conn \in PushConns : Receive(conn)
    \/ \E conn \in PushConns : CloseConnection(conn)

SpecPush == Init /\ [][NextPush]_vars

(***************************************************************************)
(* Drawing subscription ids (SpecIds): subscribe calls on one connection,   *)
(* over draws that set, clear and straddle the bits above bit 52.           *)
(***************************************************************************)
IdDraws ==
    { <<0, 0, 0, 1>>,
      <<31, 65535, 65535, 65535>>,
      <<32, 0, 0, 0>>,
      <<63, 0, 65535, 0>>,
      <<32768, 1, 2, 3>>,
      <<65504, 0, 0, 7>>,
      <<21845, 43690, 21845, 43690>>,
      <<65535, 65535, 65535, 65535>> }

NextIds ==
    \E name \in DOMAIN methods, id \in ReqIds, conn \in PushConns, raw \in IdDraws :
        InvokeSubscribe(name, id, conn, raw, KeepsSink)

SpecIds == Init /\ [][NextIds]_vars

(***************************************************************************)
(* The two closures of register_subscription run by several threads, one   *)
(* statement at a time (SpecLock).  A thread runs one handler invocation:   *)
(*   subscribe:   lock -> load -> store -> reply -> callback -> done        *)
(*   unsubscribe: lock -> load -> store -> reply -> done                    *)
(* `subscribers.lock()` takes the table's mutex; the map operation reads    *)
(* the map and writes it back; the guard is dropped at the end of the       *)
(* statement.                                                               *)
(***************************************************************************)
\* the handler invocation of a thread: the arguments of the closure, its
\* locals, its position and its return value
Invocation(pc, kind, name, id, conn, sub_id) ==
    [pc |-> pc, kind |-> kind, name |-> name, id |-> id, conn |-> conn,
     sub_id |-> sub_id, seen |-> EmptyMethods, res |-> Ok]

\* one operation on a Subscribers map
MapOp(op, table, key) == [op |-> op, table |-> table, key |-> key]

lock_unguarded(holder) == TRUE

\* parking_lot::Mutex::lock returns once no other thread holds the mutex
lock(holder) == holder = Free

\* the table's map after the first n operations of `ops` were applied to
\* the empty map one after the other
RECURSIVE Replay(_, _, _)
Replay(ops, table, n) ==
    IF n = 0 THEN EmptyMethods
    ELSE LET before == Replay(ops, table, n - 1)
             o == ops[n]
         IN IF o.table /= table THEN before
            ELSE IF o.op = "insert" THEN Insert(before, o.key, o.key[1])
            ELSE Remove(before, o.key)

ThreadFrame == UNCHANGED <<delivered, open>> /\ UNCHANGED <<modules, nextTable, methods>>
                  /\ NoHttp /\ NoWs

\* a dispatcher thread calls the subscribe closure: rand::random and the mask
CallSubscribe(t, name, id, conn, raw) ==
    /\ threads[t] = Idle
    /\ IsHandler(name, "subscribe")
    /\ open[conn]
    /\ threads' = [threads EXCEPT ![t] =
                      Invocation("lock", "subscribe", name, id, conn, draw_sub_id(raw))]
    /\ UNCHANGED <<subscribers, chan, sinks, pushed, last, mutex, history>>
    /\ ThreadFrame

\* a dispatcher thread calls the unsubscribe closure: params.one()?
CallUnsubscribe(t, name, id, conn, params) ==
    /\ threads[t] = Idle
    /\ IsHandler(name, "unsubscribe")
    /\ open[conn]
    /\ LET one == params_one(params) IN
       IF one.ok
          THEN /\ threads' = [threads EXCEPT ![t] =
                                 Invocation("lock", "unsubscribe", name, id, conn, one.value)]
               /\ UNCHANGED last
          ELSE /\ threads' = [threads EXCEPT ![t] =
                                 [Invocation("done", "unsubscribe", name, id, conn, U64Zero)
                                     EXCEPT !.res = one]]
               /\ last' = [op |-> "unsubscribe", res |-> one]
    /\ UNCHANGED <<subscribers, chan, sinks, pushed, mutex, history>>
    /\ ThreadFrame

\* subscribers.lock()
Lock(t) ==
    /\ threads[t].pc = "lock"
    /\ LET call == threads[t]
           table == methods[call.name].subscribers
       IN /\ lock(mutex[table])
          /\ mutex' = [mutex EXCEPT ![table] = t]
          /\ history' = Append(history,
                               MapOp(IF call.kind = "subscribe" THEN "insert" ELSE "remove",
                                     table, <<call.conn, call.sub_id>>))
    /\ threads' = [threads EXCEPT ![t].pc = "load"]
    /\ UNCHANGED <<subscribers, chan, sinks, pushed, last>>
    /\ ThreadFrame

\* .insert(..) / .remove(..), first half: the map is read
MapLoad(t) ==
    /\ threads[t].pc = "load"
    /\ threads' = [threads EXCEPT ![t].pc = "store",
                                  ![t].seen = subscribers[methods[threads[t].name].subscribers]]
    /\ UNCHANGED <<subscribers, chan, sinks, pushed, last, mutex, history>>
    /\ ThreadFrame

\* .insert((conn, sub_id), tx.clone()) / .remove(&(conn, sub_id)), second
\* half: the map is written; the guard is dropped at the end of the statement
MapStore(t) ==
    /\ threads[t].pc = "store"
    /\ LET call == threads[t]
           table == methods[call.name].subscribers
           key == <<call.conn, call.sub_id>>
       IN /\ subscribers' = [subscribers EXCEPT ![table] =
                                IF call.kind = "subscribe"
                                   THEN Insert(call.seen, key, call.conn)
                                   ELSE Remove(call.seen, key)]
          /\ mutex' = [mutex EXCEPT ![table] = IF @ = t THEN Free ELSE @]
    /\ threads' = [threads EXCEPT ![t].pc = "reply"]
    /\ UNCHANGED <<chan, sinks, pushed, last, history>>
    /\ ThreadFrame

\* send_response(id, tx, sub_id) / send_response(id, tx, "Unsubscribed")
SendResponse(t) ==
    /\ threads[t].pc = "reply"
    /\ LET call == threads[t] IN
       /\ chan' = [chan EXCEPT ![call.conn] =
                      send_response(call.id, @, open[call.conn],
                                    IF call.kind = "subscribe"
                                       THEN SubIdResult(call.sub_id)
                                       ELSE StrResult("Unsubscribed"))]
       /\ IF call.kind = "subscribe"
             THEN /\ threads' = [threads EXCEPT ![t].pc = "callback"]
                  /\ UNCHANGED last
             ELSE /\ threads' = [threads EXCEPT ![t].pc = "done"]
                  /\ last' = [op |-> "unsubscribe", res |-> Ok]
    /\ UNCHANGED <<subscribers, sinks, pushed, mutex, history>>
    /\ ThreadFrame

\* let sink = SubscriptionSink { .. }; callback(params, sink)
RunCallback(t, run) ==
    /\ threads[t].pc = "callback"
    /\ LET call == threads[t]
           sink == SubscriptionSink(call.conn, methods[call.name].method, call.sub_id)
       IN /\ chan' = [chan EXCEPT ![call.conn] =
                         callback_queue(run, sink, @, open[call.conn])]
          /\ pushed' = [pushed EXCEPT ![call.conn] =
                           @ \o callback_pushes(run, sink, chan[call.conn], open[call.conn])]
          /\ sinks' = sinks \cup {sink}
          /\ threads' = [threads EXCEPT ![t].pc = "done", ![t].res = callback_result(run)]
          /\ last' = [op |-> "subscribe", res |-> callback_result(run)]
    /\ UNCHANGED <<subscribers, mutex, history>>
    /\ ThreadFrame

\* the calls the threads make: both pairs of names, both connections, one
\* draw (so that calls on one connection meet on one key)
LockDraws == { <<0, 0, 0, 1>> }
LockParams == { OneParam(draw_sub_id(r)) : r \in LockDraws } \cup {BadParams}

NextLock ==
    \/ \E t \in Threads, name \in {"sub", "sub2"}, conn \in Conns, raw \in LockDraws :
          CallSubscribe(t, name, t, conn, raw)
    \/ \E t \in Threads, name \in {"unsub", "unsub2"}, conn \in Conns, params \in LockParams :
          CallUnsubscribe(t, name, t, conn, params)
    \/ \E t \in Threads : Lock(t)
    \/ \E t \in Threads : MapLoad(t)
    \/ \E t \in Threads : MapStore(t)
    \/ \E t \in Threads : SendResponse(t)
    \/ \E t \in Threads : RunCallback(t, KeepsSink)

SpecLock == Init /\ [][NextLock]_vars

(***************************************************************************)
(* The client request core and its subscription streams over one           *)
(* WebSocket (SpecClient): the calls of the user, the background task that  *)
(* reads the frames of the transport and routes them, and the server at     *)
(* the other end, which answers calls and pushes notifications.             *)
(***************************************************************************)
MaxCapacity == 2
MaxCalls == 3
MaxPushes == 4
MaxInbound == 2

\* the capacities a subscription queue may be configured with
Capacities == 1..MaxCapacity

\* what the test client calls
RequestMethods == {"say_hello"}
SubscribeMethods == {"subscribe_hello"}

\* the envelope of a call, as transmitted
Call(id, method, kind) == [id |-> id, method |-> method, kind |-> kind]

\* a pending slot; the outcome a completed slot hands to its caller
Slot(kind, method) == [kind |-> kind, method |-> method]
Answered(result) == [ok |-> TRUE, result |-> result]
Subscribed(stream) == [ok |-> TRUE, stream |-> stream]

\* Option<T> of Subscription::next: a value or the end of the stream
Some(value) == [some |-> TRUE, value |-> value]
None == [some |-> FALSE]

\* a Subscription handle with its bounded queue: `pushes` counts the
\* notifications routed to it, `yielded` is what next() returned so far
Stream(sub_id, method) ==
    [sub_id |-> sub_id, method |-> method, items |-> <<>>, terminal |-> FALSE,
     pushes |-> 0, yielded |-> <<>>]

\* the id the server gives its n-th subscription
ServerSubId(n) == draw_sub_id(<<0, 0, 0, n>>)

try_push_unbounded(stream, capacity, value) ==
    [stream EXCEPT !.items = Append(@, value), !.pushes = @ + 1]

\* the background task pushes a notification's result into the bounded
\* queue; a full queue makes the subscription terminal
try_push(stream, capacity, value) ==
    IF Len(stream.items) < capacity
        THEN [stream EXCEPT !.items = Append(@, value), !.pushes = @ + 1]
        ELSE [stream EXCEPT !.terminal = TRUE, !.pushes = @ + 1]

WsFrame == UNCHANGED <<modules, nextTable, methods, subscribers, chan, delivered, open,
                       sinks, pushed, last>>
              /\ NoHttp /\ NoThreads

\* let client = Client::new(sender, receiver)
WsNew(capacity) ==
    /\ ~ws.built
    /\ ws' = [ws EXCEPT !.built = TRUE, !.capacity = capacity]
    /\ UNCHANGED <<streams, peer>>
    /\ WsFrame

\* client.request(method, params): the next id, a pending slot, the envelope
\* on the transport; the caller then awaits the slot
Request(method) ==
    /\ ws.built
    /\ ws.next_id < MaxCalls
    /\ LET id == ws.next_id + 1 IN
       /\ ws' = [ws EXCEPT !.next_id = id,
                           !.pending = Insert(@, id, Slot("request", method))]
       /\ peer' = [peer EXCEPT !.outbound = Append(@, Call(id, method, "request"))]
    /\ UNCHANGED streams
    /\ WsFrame

\* client.subscribe(sub_method, params, unsub_method): a subscribe call
Subscribe(method) ==
    /\ ws.built
    /\ ws.next_id < MaxCalls
    /\ LET id == ws.next_id + 1 IN
       /\ ws' = [ws EXCEPT !.next_id = id,
                           !.pending = Insert(@, id, Slot("subscribe", method))]
       /\ peer' = [peer EXCEPT !.outbound = Append(@, Call(id, method, "subscribe"))]
    /\ UNCHANGED streams
    /\ WsFrame

\* the server takes the next call: it answers a request, and gives a
\* subscribe call a new subscription and answers with its id
PeerHandle ==
    /\ peer.outbound /= <<>>
    /\ LET call == Head(peer.outbound) IN
       IF call.kind = "request"
          THEN peer' = [peer EXCEPT
                           !.outbound = Tail(@),
                           !.inbound = Append(@, Response(call.id, StrResult("hello")))]
          ELSE peer' = [peer EXCEPT
                           !.outbound = Tail(@),
                           !.subs = Append(@, [method |-> call.method, sent |-> 0]),
                           !.inbound = Append(@, Response(call.id,
                                           SubIdResult(ServerSubId(Len(peer.subs) + 1))))]
    /\ UNCHANGED <<ws, streams>>
    /\ WsFrame

\* the server pushes the next value of its n-th subscription
PeerPush(n) ==
    /\ n \in DOMAIN peer.subs
    /\ peer.pushed < MaxPushes
    /\ Len(peer.inbound) < MaxInbound
    /\ peer' = [peer EXCEPT
                   !.pushed = @ + 1,
                   !.subs[n].sent = @ + 1,
                   !.inbound = Append(@, Notification(peer.subs[n].method, ServerSubId(n),
                                                      peer.subs[n].sent + 1))]
    /\ UNCHANGED <<ws, streams>>
    /\ WsFrame

\* the background task reads one frame and routes it: a response completes
\* and removes its pending slot (a subscribe reply installs a bounded queue
\* under the subscription id and hands out the handle); a notification of a
\* subscription in the table is pushed into its queue, and a full queue ends
\* the subscription and removes its entry; any other frame is discarded
Demux ==
    /\ peer.inbound /= <<>>
    /\ peer' = [peer EXCEPT !.inbound = Tail(@)]
    /\ LET frame == Head(peer.inbound) IN
       IF frame.type = "response" /\ frame.id \in DOMAIN ws.pending
          THEN IF ws.pending[frame.id].kind = "request"
                  THEN /\ ws' = [ws EXCEPT
                                    !.pending = Remove(@, frame.id),
                                    !.done = Insert(@, frame.id, Answered(frame.result))]
                       /\ UNCHANGED streams
                  ELSE /\ streams' = Append(streams, Stream(frame.result.sub_id,
                                                            ws.pending[frame.id].method))
                       /\ ws' = [ws EXCEPT
                                    !.pending = Remove(@, frame.id),
                                    !.done = Insert(@, frame.id,
                                                    Subscribed(Len(streams) + 1)),
                                    !.subscriptions =
                                        Insert(@, frame.result.sub_id, Len(streams) + 1)]
       ELSE IF frame.type = "notification"
                  /\ frame.subscription \in DOMAIN ws.subscriptions
          THEN LET h == ws.subscriptions[frame.subscription]
                   after == try_push(streams[h], ws.capacity, frame.result)
               IN /\ streams' = [streams EXCEPT ![h] = after]
                  /\ ws' = IF after.terminal
                              THEN [ws EXCEPT !.subscriptions = Remove(@, frame.subscription)]
                              ELSE ws
          ELSE UNCHANGED <<ws, streams>>
    /\ WsFrame

\* subscription.next().await returns: the next queued value, or the end of
\* the stream once the queue is terminal and empty (it waits on an empty
\* queue that is not terminal)
StreamNext(h) ==
    /\ h \in DOMAIN streams
    /\ LET stream == streams[h] IN
       IF stream.items /= <<>>
          THEN streams' = [streams EXCEPT ![h].items = Tail(@),
                                          ![h].yielded = Append(@, Some(Head(stream.items)))]
          ELSE /\ stream.terminal
               /\ stream.yielded = <<>> \/ stream.yielded[Len(stream.yielded)].some
               /\ streams' = [streams EXCEPT ![h].yielded = Append(@, None)]
    /\ UNCHANGED <<ws, peer>>
    /\ WsFrame

NextClient ==
    \/ \E capacity \in Capacities : WsNew(capacity)
    \/ \E method \in RequestMethods : Request(method)
    \/ \E method \in SubscribeMethods : Subscribe(method)
    \/ PeerHandle
    \/ \E n \in 1..MaxCalls : PeerPush(n)
    \/ Demux
    \/ \E h \in 1..MaxCalls : StreamNext(h)

\* the executor runs the background task and the server runs: a frame on
\* the transport is read, a call that arrived is handled.  Nothing makes
\* the user read a subscription.
SpecClient ==
    /\ Init
    /\ [][NextClient]_vars
    /\ WF_vars(Demux)
    /\ WF_vars(PeerHandle)

(***************************************************************************)
(* The HTTP transport client (http-client/src/transport.rs), SpecHttp.      *)
(***************************************************************************)
MaxRequests == 2

\* Result<_, Error> of the transport, and the variants of its Error
\* Ok(HttpTransportClient), Ok(surf::Response), Ok(()), Ok(jsonrpc::Response)
OkClient(self) == [ok |-> TRUE, self |-> self]
OkResponse(response) == [ok |-> TRUE, response |-> response]
OkUnit == [ok |-> TRUE]
OkParsed(json) == [ok |-> TRUE, json |-> json]
HttpErr(error) == [ok |-> FALSE, error |-> error]
ErrorUrl(msg) == [error |-> "Url", msg |-> msg]
ErrorHttp(source) == [error |-> "Http", source |-> source]
RequestFailure(status_code) == [error |-> "RequestFailure", status_code |-> status_code]
ErrorParseError == [error |-> "ParseError"]
RequestTooLarge == [error |-> "RequestTooLarge"]
\* a panic of the calling task
Panicked == [ok |-> FALSE, panic |-> "unwrap"]

\* targets, written as the pieces the URL parser separates
Targets ==
    { <<"http", ":", "//", "localhost", ":", "9933">>,
      <<"HTTP", ":", "//", "localhost">>,
      <<"https", ":", "//", "localhost", ":", "9933">>,
      <<"ws", ":", "//", "localhost", ":", "9933">>,
      <<"localhost", ":", "9933">>,
      <<"http", ":", "//">>,
      <<"//", "localhost">>,
      <<>> }

\* pieces made of ASCII letters, and their lower case
AsciiLower ==
    [t \in {"http", "HTTP", "https", "ws", "localhost"} |->
        IF t = "HTTP" THEN "http" ELSE t]
SpecialSchemes == {"http", "https", "ws", "wss", "ftp", "file"}

\* Url::parse: a URL starts with a scheme of letters followed by ':', the
\* scheme is lower-cased, and a special scheme needs a host
Url_parse(target) ==
    IF ~(Len(target) >= 2 /\ target[2] = ":" /\ target[1] \in DOMAIN AsciiLower)
        THEN [ok |-> FALSE, error |-> "relative URL without a base"]
    ELSE LET scheme == AsciiLower[target[1]]
             rest == SelectSeq(SubSeq(target, 3, Len(target)), LAMBDA p : p /= "//")
         IN IF scheme \in SpecialSchemes /\ rest = <<>>
               THEN [ok |-> FALSE, error |-> "empty host"]
               ELSE [ok |-> TRUE, scheme |-> scheme, rest |-> rest]

\* HttpConfig { max_request_body_size }
Configs == {59, 80}

\* HttpTransportClient::new
HttpTransportClient_new(target, config) ==
    LET parsed == Url_parse(target) IN
    IF ~parsed.ok THEN HttpErr(ErrorUrl("Invalid URL"))
    ELSE IF parsed.scheme = "http"
        THEN OkClient([client |-> "surf", target |-> parsed,
                       config |-> [max_request_body_size |-> config]])
        ELSE HttpErr(ErrorUrl("URL scheme not supported, expects 'http'"))

\* jsonrpc::Request::Single(Call::MethodCall { jsonrpc: V2, method, params: None, id: Num(id) })
MethodCall(method, id) == [method |-> method, id |-> id]
Requests ==
    { MethodCall("say_hello", 1),
      MethodCall("request_of_exactly_eightybytes", 1),
      MethodCall("request_larger_than_eightybytes", 1) }

DigitText == [d \in 0..9 |-> CASE d = 0 -> "0" [] d = 1 -> "1" [] d = 2 -> "2" [] d = 3 -> "3"
                               [] d = 4 -> "4" [] d = 5 -> "5" [] d = 6 -> "6" [] d = 7 -> "7"
                               [] d = 8 -> "8" [] d = 9 -> "9"]
RECURSIVE Decimal(_)
Decimal(n) == IF n < 10 THEN DigitText[n] ELSE Decimal(n \div 10) \o DigitText[n % 10]

\* jsonrpc::to_vec(&request): the JSON text of the request
to_vec(request) ==
    "{\"jsonrpc\":\"2.0\",\"method\":\"" \o request.method
        \o "\",\"params\":null,\"id\":" \o Decimal(request.id) \o "}"

\* the bytes of a response body: a JSON text of n bytes followed by `pad`
\* bytes of white space, or bytes that are no JSON
JsonText(n, pad) ==
    [i \in 1..(n + pad) |-> IF i = 1 THEN "{" ELSE IF i < n THEN "x"
                            ELSE IF i = n THEN "}" ELSE " "]
Garbage == <<"x", "x">>
ResponseBodies ==
    { JsonText(2, 0), JsonText(59, 0), JsonText(59, 1), JsonText(80, 0), JsonText(80, 1),
      JsonText(81, 0), Garbage }

\* what the network does with a request that is sent: the send fails, or a
\* response arrives with a status, a body, and a body length that is known
\* (Content-Length) or not
SendFails == [is |-> "error"]
HttpResponse(status, body, known) ==
    [is |-> "response", status |-> status, body |-> body, known |-> known]
Networks ==
    {SendFails}
        \cup { HttpResponse(200, b, k) : b \in ResponseBodies, k \in BOOLEAN }
        \cup { HttpResponse(st, Garbage, TRUE) : st \in {204, 301, 404, 500} }

\* StatusCode::is_success
is_success(status) == status >= 200 /\ status <= 299

send_request_at_limit(self, request, net) ==
    LET body == to_vec(request) IN
    IF Len(body) >= self.config.max_request_body_size
        THEN [res |-> HttpErr(RequestTooLarge), sent |-> <<>>]
    ELSE IF net.is = "error"
        THEN [res |-> Panicked, sent |-> <<body>>]
    ELSE IF is_success(net.status)
        THEN [res |-> OkResponse(net), sent |-> <<body>>]
        ELSE [res |-> HttpErr(RequestFailure(net.status)), sent |-> <<body>>]

\* HttpTransportClient::send_request: `sent` holds the body when the request
\* was handed to the HTTP client
send_request(self, request, net) ==
    LET body == to_vec(request) IN
    IF Len(body) > self.config.max_request_body_size
        THEN [res |-> HttpErr(RequestTooLarge), sent |-> <<>>]
    ELSE IF net.is = "error"
        THEN [res |-> Panicked, sent |-> <<body>>]
    ELSE IF is_success(net.status)
        THEN [res |-> OkResponse(net), sent |-> <<body>>]
        ELSE [res |-> HttpErr(RequestFailure(net.status)), sent |-> <<body>>]

\* HttpTransportClient::send_notification
send_notification(self, request, net) ==
    LET r == send_request(self, request, net) IN
    IF r.res.ok THEN [res |-> OkUnit, sent |-> r.sent, buffered |-> 0]
                ELSE [res |-> r.res, sent |-> r.sent, buffered |-> 0]

\* serde_json::from_slice: one JSON value, white space allowed after it
from_slice(buffer) ==
    LET ends == { n \in 2..Len(buffer) :
                    /\ buffer[1] = "{"
                    /\ buffer[n] = "}"
                    /\ \A i \in 2..(n - 1) : buffer[i] = "x"
                    /\ \A i \in (n + 1)..Len(buffer) : buffer[i] = " " }
    IN IF ends = {} THEN HttpErr(ErrorParseError)
       ELSE OkParsed(SubSeq(buffer, 1, CHOOSE n \in ends : TRUE))

\* reader.take(limit) then read_to_end
take(body, limit) == IF Len(body) <= limit THEN body ELSE SubSeq(body, 1, limit)

\* HttpTransportClient::send_request_and_wait_for_response: `buffered` is the
\* number of bytes of the response read into the buffer
send_request_and_wait_for_response(self, request, net) ==
    LET r == send_request(self, request, net) IN
    IF r.res = Panicked THEN [res |-> Panicked, sent |-> r.sent, buffered |-> 0]
    ELSE IF ~r.res.ok
        THEN [res |-> HttpErr(ErrorHttp(r.res.error)), sent |-> r.sent, buffered |-> 0]
    ELSE LET response == r.res.response
             length == IF response.known THEN Len(response.body) ELSE 0
         IN IF length > self.config.max_request_body_size
               THEN [res |-> HttpErr(RequestTooLarge), sent |-> r.sent, buffered |-> 0]
               ELSE LET buffer == take(response.body, self.config.max_request_body_size) IN
                    [res |-> from_slice(buffer), sent |-> r.sent, buffered |-> Len(buffer)]

NoRegistry ==
    /\ UNCHANGED <<modules, nextTable, methods, subscribers, chan, delivered, open, sinks,
                   pushed, last>>
    /\ NoThreads
    /\ NoWs

\* the calling task is alive and the model has room for another request
CanCall ==
    /\ http /= NoClient
    /\ returned /= NoCall => returned.res /= Panicked
    /\ Len(wire) < MaxRequests

\* let client = HttpTransportClient::new(target, config)
HttpNew(target, config) ==
    /\ http = NoClient
    /\ LET r == HttpTransportClient_new(target, config) IN
          /\ http' = IF r.ok THEN r.self ELSE NoClient
          /\ returned' = [op |-> "new", target |-> target, res |-> r, buffered |-> 0]
    /\ UNCHANGED wire
    /\ NoRegistry

\* client.send_request(request), as the tests of the module call it
SendRequest(request, net) ==
    /\ CanCall
    /\ LET r == send_request(http, request, net) IN
          /\ wire' = wire \o r.sent
          /\ returned' = [op |-> "send_request", target |-> <<>>, res |-> r.res,
                          buffered |-> 0]
    /\ UNCHANGED http
    /\ NoRegistry

\* client.send_notification(request)
SendNotification(request, net) ==
    /\ CanCall
    /\ LET r == send_notification(http, request, net) IN
          /\ wire' = wire \o r.sent
          /\ returned' = [op |-> "send_notification", target |-> <<>>, res |-> r.res,
                          buffered |-> r.buffered]
    /\ UNCHANGED http
    /\ NoRegistry

\* client.send_request_and_wait_for_response(request)
SendRequestAndWait(request, net) ==
    /\ CanCall
    /\ LET r == send_request_and_wait_for_response(http, request, net) IN
          /\ wire' = wire \o r.sent
          /\ returned' = [op |-> "send_request_and_wait_for_response", target |-> <<>>,
                          res |-> r.res, buffered |-> r.buffered]
    /\ UNCHANGED http
    /\ NoRegistry

NextHttp ==
    \/ \E target \in Targets, config \in Configs : HttpNew(target, config)
    \/ \E request \in Requests, net \in Networks : SendRequest(request, net)
    \/ \E request \in Requests, net \in Networks : SendNotification(request, net)
    \/ \E request \in Requests, net \in Networks : SendRequestAndWait(request, net)

SpecHttp == Init /\ [][NextHttp]_vars

(***************************************************************************)
(* Properties of building modules, checked under SpecModule.               *)
(***************************************************************************)
RegError(name) == Err("MethodAlreadyRegistered", name)

\* C6: register_method(name, ..) on a module that already holds `name`
\* (whatever installed it, on a plain or a context module) returns
\* MethodAlreadyRegistered(name) and leaves every module as it was.
C6_DuplicateMethodRejected ==
    [][\A m \in Slots, name \in Names, cb \in Callbacks :
          ( /\ name \in DOMAIN MethodsOf(modules[m])
            /\ (RegisterMethod(m, name, cb) \/ CtxRegisterMethod(m, name, cb)) )
          => /\ last'.res = RegError(name)
             /\ modules' = modules]_vars

\* a register_method was refused on a context module for a name that a
\* subscription registration had installed
C6_Witness ==
    /\ last.op = "register_method"
    /\ ~last.res.ok
    /\ \E m \in Slots :
        /\ modules[m].tag = "context"
        /\ last.res.what \in DOMAIN MethodsOf(modules[m])
        /\ MethodsOf(modules[m])[last.res.what].kind = "unsubscribe"

\* C7: register_subscription(sub, unsub, ..) returns SubscriptionNameConflict
\* when sub = unsub and MethodAlreadyRegistered when sub or unsub is already
\* registered, and then installs neither name; otherwise it succeeds and adds
\* exactly sub and unsub, leaving the other names bound as they were.
C7_SubscriptionRegistration ==
    [][\A m \in Slots, p \in SubPairs, cb \in Callbacks :
          LET sub == p[1]
              unsub == p[2]
              before == MethodsOf(modules[m])
              after == MethodsOf(modules'[m])
          IN
          (RegisterSubscription(m, sub, unsub, cb)
              \/ RegisterSubscriptionWithContext(m, sub, unsub, cb))
          => /\ (sub = unsub) =>
                    /\ last'.res = Err("SubscriptionNameConflict", sub)
                    /\ modules' = modules
             /\ (sub /= unsub /\ {sub, unsub} \cap DOMAIN before /= {}) =>
                    /\ \E n \in {sub, unsub} \cap DOMAIN before : last'.res = RegError(n)
                    /\ modules' = modules
             /\ (sub /= unsub /\ {sub, unsub} \cap DOMAIN before = {}) =>
                    /\ last'.res = Ok
                    /\ DOMAIN after = DOMAIN before \cup {sub, unsub}
                    /\ \A n \in DOMAIN before : after[n] = before[n]
                    /\ after[sub].kind = "subscribe"
                    /\ after[unsub].kind = "unsubscribe"
                    /\ \A k \in Slots \ {m} : modules'[k] = modules[k]]_vars

\* a subscription registration was refused because of the name "m", and no
\* module holds the name "sub": nothing was half-registered
C7_Witness ==
    /\ last.op = "register_subscription"
    /\ last.res = RegError("m")
    /\ \E m \in Slots : "m" \in DOMAIN MethodsOf(modules[m])
    /\ \A m \in Slots : "sub" \notin DOMAIN MethodsOf(modules[m])

\* C8 as stated: a merge that finds a name of `other` registered in `self`
\* fails and modifies neither module.
C8_FailedMergeModifiesNeither ==
    [][\A m \in Slots, o \in Slots :
          ( /\ Merge(m, o)
            /\ DOMAIN MethodsOf(modules[m]) \cap DOMAIN MethodsOf(modules[o]) /= {} )
          => /\ ~last'.res.ok
             /\ modules' = modules]_vars

\* C8 as amended: a merge that finds a name of `other` registered in `self`
\* fails with MethodAlreadyRegistered for such a name and leaves `self` as it
\* was (no name of `other` is moved in); `other`, passed by value, is gone.
C8_FailedMergeKeepsSelf ==
    [][\A m \in Slots, o \in Slots :
          LET both == DOMAIN MethodsOf(modules[m]) \cap DOMAIN MethodsOf(modules[o]) IN
          (Merge(m, o) /\ both /= {})
          => /\ \E n \in both : last'.res = RegError(n)
             /\ modules'[m] = modules[m]
             /\ modules'[o] = Moved
             /\ \A k \in Slots \ {m, o} : modules'[k] = modules[k]]_vars

\* a merge was refused for a name the surviving module holds
C8_Witness ==
    /\ last.op = "merge"
    /\ ~last.res.ok
    /\ \E m \in Slots, o \in Slots :
        /\ Live(modules[m])
        /\ modules[o] = Moved
        /\ last.res.what \in DOMAIN MethodsOf(modules[m])

\* C9: a merge of modules with disjoint names succeeds, and `self` then holds
\* exactly the names of both, each bound to the handler it had; `self` may be
\* a context module (merge reached through DerefMut).
C9_DisjointMergeIsUnion ==
    [][\A m \in Slots, o \in Slots :
          LET mine == MethodsOf(modules[m])
              theirs == MethodsOf(modules[o])
              after == MethodsOf(modules'[m])
          IN
          (Merge(m, o) /\ DOMAIN mine \cap DOMAIN theirs = {})
          => /\ last'.res = Ok
             /\ DOMAIN after = DOMAIN mine \cup DOMAIN theirs
             /\ \A n \in DOMAIN mine : after[n] = mine[n]
             /\ \A n \in DOMAIN theirs : after[n] = theirs[n]
             /\ modules'[m].tag = modules[m].tag]_vars

\* a context module that holds a method registered with its context and,
\* after a successful merge, a subscription of another module's table
C9_Witness ==
    /\ last.op = "merge"
    /\ last.res.ok
    /\ \E m \in Slots :
        /\ modules[m].tag = "context"
        /\ \E n1, n2 \in DOMAIN MethodsOf(modules[m]) :
            LET h1 == MethodsOf(modules[m])[n1]
                h2 == MethodsOf(modules[m])[n2]
            IN /\ h1.kind = "method" /\ h1.ctx = TheCtx
               /\ h2.kind = "subscribe"
               /\ h2.subscribers \notin
                     {modules[m].v.subscribers, modules[m].v.module.subscribers}

(***************************************************************************)
(* Properties of serving, checked under Spec.                              *)
(***************************************************************************)
\* the table captured by the handler registered as `name`
TableOf(name) == methods[name].subscribers

AllKeys == UNION { DOMAIN subscribers[t] : t \in TableIds }

IsSubscribeReply(frame) == frame.type = "response" /\ frame.result.is = "sub_id"
IsUnsubscribed(frame) ==
    frame.type = "response" /\ frame.result.is = "string" /\ frame.result.str = "Unsubscribed"

\* C1: after a subscribe handler returned successfully on connection c, having
\* replied subscription id s, its table holds the entry (c, s) (one per key: a
\* map); after the unsubscribe handler registered with it ran on c with s, the
\* table holds no entry (c, s).
C1_SubscribeThenUnsubscribe ==
    [][/\ \A name \in DOMAIN methods, id \in ReqIds, c \in Conns, raw \in RawDraws,
             run \in CallbackRuns :
             (InvokeSubscribe(name, id, c, raw, run) /\ last'.res.ok)
             => LET reply == chan'[c][Len(chan[c]) + 1]
                    s == reply.result.sub_id
                IN /\ IsSubscribeReply(reply)
                   /\ <<c, s>> \in DOMAIN subscribers'[TableOf(name)]
                   /\ subscribers'[TableOf(name)][<<c, s>>] = c
       /\ \A p \in ServedPairs, id \in ReqIds, c \in Conns, s \in SubIds :
             InvokeUnsubscribe(p[2], id, c, OneParam(s))
             => <<c, s>> \notin DOMAIN subscribers'[TableOf(p[1])]]_vars

\* one subscribe and then its unsubscribe ran on a connection, and the
\* tables are empty again
C1_Witness ==
    /\ last.op = "unsubscribe"
    /\ last.res.ok
    /\ AllKeys = {}
    /\ \E c \in Conns :
        /\ Len(chan[c]) = 2
        /\ IsSubscribeReply(chan[c][1])
        /\ IsUnsubscribed(chan[c][2])
        /\ \A d \in Conns \ {c} : chan[d] = <<>>

\* C2 as stated: a subscribe handler never draws an id that is live for its
\* connection without redrawing, so it never overwrites an entry (c, s).
C2_SubscribeNeverOverwrites ==
    [][\A name \in DOMAIN methods, id \in ReqIds, c \in Conns, raw \in RawDraws,
          run \in CallbackRuns :
          InvokeSubscribe(name, id, c, raw, run)
          => <<c, chan'[c][Len(chan[c]) + 1].result.sub_id>>
                 \notin DOMAIN subscribers[TableOf(name)]]_vars

\* C3 as stated: once the entry (c, s) is removed from the table, a send on
\* the SubscriptionSink of s enqueues nothing for the consumer of c.
C3_RemovalStopsSends ==
    [][\A sink \in sinks, value \in Values :
          ( /\ SinkSend(sink, value)
            /\ <<sink.inner, sink.sub_id>> \notin DOMAIN subscribers[TableOf(sink.method)] )
          => chan'[sink.inner] = chan[sink.inner]]_vars

\* C4: on every connection, a notification for subscription id s comes after
\* a success response whose result is s.
C4_ReplyBeforeNotification ==
    \A c \in Conns : \A i \in 1..Len(chan[c]) :
        chan[c][i].type = "notification"
        => \E j \in 1..(i - 1) :
              /\ IsSubscribeReply(chan[c][j])
              /\ chan[c][j].result.sub_id = chan[c][i].subscription

\* a connection whose first frame announces an id and whose second frame is
\* a notification for it
C4_Witness ==
    \E c \in Conns :
        /\ Len(chan[c]) >= 2
        /\ IsSubscribeReply(chan[c][1])
        /\ chan[c][2].type = "notification"
        /\ chan[c][2].subscription = chan[c][1].result.sub_id

\* C5 as stated: once connection c is gone, no table holds a key (c, _).
C5_TeardownRemovesEntries ==
    \A c \in Conns : ~open[c] => \A k \in AllKeys : k[1] /= c

\* C10: the unsubscribe handler, called on c with id s, removes the key (c, s)
\* from its table and changes nothing else in any table; when (c, s) is absent
\* no table changes; in both cases it returns Ok and enqueues the response
\* "Unsubscribed"; run again on its own result it leaves the table as it is.
C10_UnsubscribeTouchesOneKey ==
    [][\A name \in DOMAIN methods, id \in ReqIds, c \in Conns, s \in SubIds :
          InvokeUnsubscribe(name, id, c, OneParam(s))
          => LET t == TableOf(name)
                 again == unsubscribe_handler(methods[name], id, c, OneParam(s),
                                              subscribers'[t], chan'[c], open'[c])
             IN /\ \A u \in TableIds \ {t} : subscribers'[u] = subscribers[u]
                /\ DOMAIN subscribers'[t] = DOMAIN subscribers[t] \ {<<c, s>>}
                /\ \A k \in DOMAIN subscribers'[t] : subscribers'[t][k] = subscribers[t][k]
                /\ (<<c, s>> \notin DOMAIN subscribers[t]) => subscribers' = subscribers
                /\ last'.res = Ok
                /\ chan'[c] = Append(chan[c], Response(id, StrResult("Unsubscribed")))
                /\ again.table = subscribers'[t]]_vars

\* an unsubscribe on one connection, while another connection still holds an
\* entry with the id that the first connection was given
C10_Witness ==
    /\ last.op = "unsubscribe"
    /\ last.res.ok
    /\ \E c \in Conns, d \in Conns, t \in TableIds :
        /\ c /= d
        /\ Len(chan[c]) = 2
        /\ IsSubscribeReply(chan[c][1])
        /\ IsUnsubscribed(chan[c][2])
        /\ <<d, chan[c][1].result.sub_id>> \in DOMAIN subscribers[t]
        /\ <<c, chan[c][1].result.sub_id>> \notin DOMAIN subscribers[t]

\* C12: a send on a sink of a connection whose consumer is gone fails and
\* enqueues nothing; a send on a sink of a connection that is up returns Ok
\* whatever happened to the other connections, and enqueues its notification
\* on that connection only.
C12_ConnectionsIsolated ==
    [][\A sink \in sinks, value \in Values :
          SinkSend(sink, value)
          => IF open[sink.inner]
                THEN /\ last'.res = Ok
                     /\ chan'[sink.inner] =
                            Append(chan[sink.inner],
                                   Notification(sink.method, sink.sub_id, value))
                     /\ \A d \in Conns \ {sink.inner} : chan'[d] = chan[d]
                ELSE /\ ~last'.res.ok
                     /\ chan' = chan]_vars

\* a send returned Ok on a connection that is up, while a connection that
\* holds a subscription is gone
C12_Witness ==
    /\ last.op = "send"
    /\ last.res.ok
    /\ \E c \in Conns, d \in Conns :
        /\ ~open[c]
        /\ open[d]
        /\ \E sink \in sinks : sink.inner = c
        /\ Len(chan[d]) >= 2
        /\ chan[d][Len(chan[d])].type = "notification"

(***************************************************************************)
(* Properties of pushing, checked under SpecPush.                          *)
(***************************************************************************)
\* the frames the consumer of connection c has taken, in order
Received(c) == SubSeq(chan[c], 1, delivered[c])

\* the values of the notifications of a sink among `frames`, in order
NotifiedValues(frames, sink) ==
    LET Mine(frame) == /\ frame.type = "notification"
                       /\ frame.method = sink.method
                       /\ frame.subscription = sink.sub_id
        mine == SelectSeq(frames, Mine)
    IN [i \in 1..Len(mine) |-> mine[i].result]

\* the values of the Ok sends on a sink, in call order
PushedValues(sink) ==
    LET Mine(push) == push.method = sink.method /\ push.sub_id = sink.sub_id
        mine == SelectSeq(pushed[sink.inner], Mine)
    IN [i \in 1..Len(mine) |-> mine[i].value]

IsPrefix(s, t) == Len(s) <= Len(t) /\ SubSeq(t, 1, Len(s)) = s

C13_SendFailsClosedNeverBlocks ==
    [][/\ \A sink \in sinks, value \in PushValues :
             open[sink.inner]
             => LET r == send_raw_value(sink, value, chan[sink.inner], TRUE) IN
                   r.res = Ok /\ Len(r.queue) = Len(chan[sink.inner]) + 1
       /\ \A sink \in sinks, value \in PushValues :
             SinkSend(sink, value)
             => /\ delivered' = delivered
                /\ IF open[sink.inner]
                      THEN /\ last'.res = Ok
                           /\ Len(chan'[sink.inner]) = Len(chan[sink.inner]) + 1
                      ELSE /\ last'.res = Err("Internal", "send")
                           /\ chan' = chan
                           /\ pushed' = pushed]_vars

\* a send failed on a closed channel, after a send had returned Ok while a
\* frame was waiting for the consumer
C13_Witness ==
    /\ last.op = "send"
    /\ last.res = Err("Internal", "send")
    /\ \E c \in Conns :
        /\ ~open[c]
        /\ pushed[c] /= <<>>
        /\ Len(chan[c]) - delivered[c] >= 2

(***************************************************************************)
(* Properties of serving calls, checked under SpecCalls.                   *)
(***************************************************************************)
\* C14: a call of a handler installed by register_method (of a plain or of a
\* context module) returns Ok and enqueues exactly one frame, on the caller's
\* connection, with the request id: the success response with the callback's
\* result, or the error -32602 when the callback returned InvalidParams, or
\* the error -32000 with the Display text of the failure when it returned
\* Failed; nothing else changes.
C14_MethodHandlerWritesOneResponse ==
    [][\A name \in DOMAIN methods, id \in CallIds, conn \in Conns, outcome \in CallOutcomes :
          InvokeMethod(name, id, conn, outcome)
          => LET frame == chan'[conn][Len(chan[conn]) + 1] IN
             /\ last'.res = Ok
             /\ Len(chan'[conn]) = Len(chan[conn]) + 1
             /\ SubSeq(chan'[conn], 1, Len(chan[conn])) = chan[conn]
             /\ \A d \in Conns \ {conn} : chan'[d] = chan[d]
             /\ subscribers' = subscribers
             /\ frame.id = id
             /\ CASE outcome.is = "Ok" ->
                        /\ frame.type = "response"
                        /\ frame.result.is = "string"
                        /\ frame.result.str = outcome.res
                  [] outcome.is = "InvalidParams" ->
                        /\ frame.type = "error"
                        /\ frame.code = -32602
                  [] outcome.is = "Failed" ->
                        /\ frame.type = "error"
                        /\ frame.code = -32000
                        /\ frame.message = outcome.err.display]_vars

\* a connection that was answered the failure "bust" for request 2 and then
\* invalid params for request 1
C14_Witness ==
    /\ last.op = "call"
    /\ \E conn \in Conns :
        /\ Len(chan[conn]) = 2
        /\ chan[conn][1] = ErrorResponse(2, -32000, "bust")
        /\ chan[conn][2].type = "error"
        /\ chan[conn][2].id = 1
        /\ chan[conn][2].code = -32602

\* C15: when the callback of a subscription returns an error, the subscribe
\* closure returns that error to the dispatcher, which writes an internal
\* error (-32603) with the request id as the last frame of the call on the
\* caller's connection; when the callback returns Ok no error is written.
C15_CallbackErrorSurfaced ==
    [][\A name \in DOMAIN methods, id \in ReqIds, conn \in Conns, raw \in CallDraws,
          run \in CallbackRuns :
          DispatchSubscribe(name, id, conn, raw, run)
          => LET n == Len(chan'[conn])
                 written == n - Len(chan[conn])
             IN IF run.ok
                   THEN /\ last'.res = Ok
                        /\ written = 1 + (IF run.sendsNow THEN 1 ELSE 0)
                        /\ \A i \in (Len(chan[conn]) + 1)..n : chan'[conn][i].type /= "error"
                   ELSE /\ ~last'.res.ok
                        /\ written = 2 + (IF run.sendsNow THEN 1 ELSE 0)
                        /\ chan'[conn][n].type = "error"
                        /\ chan'[conn][n].id = id
                        /\ chan'[conn][n].code = -32603]_vars

\* a subscribe call whose callback failed: the connection holds the reply
\* with the new id and then the internal error
C15_Witness ==
    /\ last.op = "subscribe"
    /\ ~last.res.ok
    /\ \E conn \in Conns :
        /\ Len(chan[conn]) = 2
        /\ IsSubscribeReply(chan[conn][1])
        /\ chan[conn][2].type = "error"
        /\ chan[conn][2].code = -32603

(***************************************************************************)
(* Properties of the subscription ids, checked under SpecIds.              *)
(***************************************************************************)
\* the low 53 bits of a 64-bit value, by arithmetic on its top 16 bits
Low53(raw) == <<raw[1] % 32, raw[2], raw[3], raw[4]>>

\* at most 2^53 - 1
FitsIn53Bits(sub_id) == sub_id[1] < 32

\* C16: for every 64-bit draw, the id the subscribe closure writes in its
\* response, stores in the Subscribers key and gives to the SubscriptionSink
\* is the low 53 bits of the draw, and every id in a table, in a sink or in a
\* reply is at most 2^53 - 1.
C16_IdsFitIn53Bits ==
    [][\A name \in DOMAIN methods, id \in ReqIds, conn \in PushConns, raw \in IdDraws :
          InvokeSubscribe(name, id, conn, raw, KeepsSink)
          => LET s == Low53(raw) IN
             /\ FitsIn53Bits(s)
             /\ chan'[conn][Len(chan[conn]) + 1] = Response(id, SubIdResult(s))
             /\ <<conn, s>> \in DOMAIN subscribers'[TableOf(name)]
             /\ SubscriptionSink(conn, name, s) \in sinks'
             /\ \A k \in UNION { DOMAIN subscribers'[t] : t \in TableIds } :
                   FitsIn53Bits(k[2])
             /\ \A sink \in sinks' : FitsIn53Bits(sink.sub_id)]_vars

\* the draw 2^53 was answered with the id 0, and the draw of all ones with
\* the id 2^53 - 1
C16_Witness ==
    \E conn \in Conns :
        /\ Len(chan[conn]) = 2
        /\ chan[conn][1] = Response(1, SubIdResult(U64Zero))
        /\ chan[conn][2] = Response(1, SubIdResult(<<31, 65535, 65535, 65535>>))
        /\ <<conn, U64Zero>> \in AllKeys

(***************************************************************************)
(* Properties of the HTTP transport, checked under SpecHttp.               *)
(***************************************************************************)
\* C17 as stated: HttpTransportClient::new returns a client exactly for the
\* targets that parse with the scheme http or https, returns Error::Url for
\* every other target, and sends nothing.
C17_HttpAndHttpsAccepted ==
    [][\A target \in Targets, config \in Configs :
          HttpNew(target, config)
          => LET parsed == Url_parse(target) IN
             /\ returned'.res.ok <=> (parsed.ok /\ parsed.scheme \in {"http", "https"})
             /\ ~returned'.res.ok => returned'.res.error.error = "Url"
             /\ wire' = wire]_vars

\* C18: send_request, called directly or by send_notification or by
\* send_request_and_wait_for_response, hands a body to the HTTP client exactly
\* when the body is not longer than max_request_body_size; for a longer body
\* send_request and send_notification return RequestTooLarge, the call fails
\* and nothing is sent.
C18_RequestSizeCheckedBeforeSend ==
    [][\A request \in Requests, net \in Networks :
          (SendRequest(request, net) \/ SendNotification(request, net)
              \/ SendRequestAndWait(request, net))
          => LET body == to_vec(request) IN
             IF Len(body) > http.config.max_request_body_size
                THEN /\ wire' = wire
                     /\ ~returned'.res.ok
                     /\ returned'.op \in {"send_request", "send_notification"}
                        => returned'.res = HttpErr(RequestTooLarge)
                     /\ send_request(http, request, net).res = HttpErr(RequestTooLarge)
                ELSE wire' = Append(wire, body)]_vars

\* with the limit 80, a request of 80 bytes was sent and then a request was
\* refused with RequestTooLarge
C18_Witness ==
    /\ http /= NoClient
    /\ http.config.max_request_body_size = 80
    /\ Len(wire) = 1
    /\ Len(wire[1]) = 80
    /\ returned.op = "send_request"
    /\ returned.res = HttpErr(RequestTooLarge)

\* C19 as stated: when the server answers with a status outside 200..299,
\* send_notification and send_request_and_wait_for_response return
\* RequestFailure with that status code.
C19_NonSuccessIsRequestFailure ==
    [][\A request \in Requests, net \in Networks :
          ( /\ SendNotification(request, net) \/ SendRequestAndWait(request, net)
            /\ wire' /= wire
            /\ net.is = "response"
            /\ ~is_success(net.status) )
          => returned'.res = HttpErr(RequestFailure(net.status))]_vars

\* C20 as stated: send_request_and_wait_for_response fails with
\* RequestTooLarge when the body of the response is longer than
\* max_request_body_size, reads and parses the whole body when it is not, and
\* never buffers more than max_request_body_size bytes.
C20_ResponseBodyCapped ==
    [][\A request \in Requests, net \in Networks :
          ( /\ SendRequestAndWait(request, net)
            /\ wire' /= wire
            /\ net.is = "response"
            /\ is_success(net.status) )
          => /\ returned'.buffered <= http.config.max_request_body_size
             /\ IF Len(net.body) > http.config.max_request_body_size
                   THEN returned'.res = HttpErr(RequestTooLarge)
                   ELSE /\ returned'.res = from_slice(net.body)
                        /\ returned'.buffered = Len(net.body)]_vars

\* C22 as stated: when the send of the HTTP client fails (connection refused,
\* I/O error), send_request, send_notification and
\* send_request_and_wait_for_response return an error value of the transport
\* to their caller; the calling task does not panic.
C22_SendFailureIsReturned ==
    [][\A request \in Requests, net \in Networks :
          ( /\ \/ SendRequest(request, net)
               \/ SendNotification(request, net)
               \/ SendRequestAndWait(request, net)
            /\ wire' /= wire
            /\ net.is = "error" )
          => /\ returned'.res /= Panicked
             /\ ~returned'.res.ok
             /\ returned'.res.error.error = "Http"]_vars

(***************************************************************************)
(* Properties of the frames of subscriptions, checked under Spec.          *)
(***************************************************************************)
\* C23: every notification enqueued on the channel of a connection names a
\* method registered as a subscribe method, carries a subscription id that an
\* earlier subscribe response on the same channel returned, and is the frame
\* of a SubscriptionSink that a subscribe call on that connection built with
\* that method and that id; a send of a sink enqueues on the channel of its
\* own connection only, with its own method and id.
C23_NotificationsCarryOwnSubscription ==
    /\ [](\A c \in Conns : \A i \in 1..Len(chan[c]) :
            LET frame == chan[c][i] IN
            frame.type = "notification"
            => /\ IsHandler(frame.method, "subscribe")
               /\ \E j \in 1..(i - 1) :
                     /\ IsSubscribeReply(chan[c][j])
                     /\ chan[c][j].result = SubIdResult(frame.subscription)
               /\ SubscriptionSink(c, frame.method, frame.subscription) \in sinks)
    /\ [][\A sink \in sinks, value \in Values :
            SinkSend(sink, value)
            => /\ \A d \in Conns \ {sink.inner} : chan'[d] = chan[d]
               /\ chan'[sink.inner] /= chan[sink.inner]
                  => /\ Len(chan'[sink.inner]) = Len(chan[sink.inner]) + 1
                     /\ LET frame == chan'[sink.inner][Len(chan'[sink.inner])] IN
                        /\ frame.type = "notification"
                        /\ frame.method = sink.method
                        /\ frame.subscription = sink.sub_id]_vars

\* two connections hold subscriptions with different ids, and a notification
\* with the id of its own subscription was enqueued on one of them
C23_Witness ==
    \E c \in Conns : \E d \in Conns \ {c} :
        /\ Len(chan[c]) >= 2
        /\ Len(chan[d]) >= 1
        /\ IsSubscribeReply(chan[c][1])
        /\ IsSubscribeReply(chan[d][1])
        /\ chan[c][1].result /= chan[d][1].result
        /\ chan[c][2].type = "notification"
        /\ chan[c][2].subscription = chan[c][1].result.sub_id
        /\ last.op = "send"

(***************************************************************************)
(* Properties of the handlers run in parallel, checked under SpecLock.     *)
(***************************************************************************)
\* the threads that are between `subscribers.lock()` and the end of the map
\* operation on table tb
Operating(tb) ==
    { t \in Threads : /\ threads[t].pc \in {"load", "store"}
                      /\ methods[threads[t].name].subscribers = tb }

\* C24: for every interleaving of the subscribe and unsubscribe handlers
\* that the threads run on the connections, at most one thread is inside a
\* map operation of a table, and that thread holds the table's mutex; when no
\* operation on a table is in progress (so also when every handler has
\* finished) the table is what the operations done so far give when applied
\* one after the other in the order of their locks: it holds exactly the
\* (connection, id) pairs inserted and not removed afterwards, no update is
\* lost.  A thread holds a mutex only inside the map operation: never while
\* it writes the response or runs the callback.
C24_InsertRemoveAtomic ==
    /\ \A tb \in TableIds :
          /\ Cardinality(Operating(tb)) <= 1
          /\ \A t \in Operating(tb) : mutex[tb] = t
          /\ Operating(tb) = {} => /\ mutex[tb] = Free
                                   /\ subscribers[tb] = Replay(history, tb, Len(history))
    /\ \A t \in Threads :
          threads[t].pc \in {"idle", "lock", "reply", "callback", "done"}
          => \A tb \in TableIds : mutex[tb] /= t

\* three handlers ran to their ends on two connections: two subscribes, and
\* an unsubscribe that removed the entry of one of them; the other entry is
\* in the table
C24_Witness ==
    /\ \A t \in Threads : threads[t].pc = "done"
    /\ Len(history) = 3
    /\ history[1].op = "insert"
    /\ history[2].op = "insert"
    /\ history[3].op = "remove"
    /\ history[1].table = history[2].table
    /\ history[3].key = history[1].key
    /\ history[2].key[1] /= history[1].key[1]
    /\ DOMAIN subscribers[history[1].table] = {history[2].key}

(***************************************************************************)
(* Properties of the tables the closures capture, checked under SpecModule.*)
(***************************************************************************)
\* the subscribe closure hs is called on connection conn and draws raw, then
\* the unsubscribe closure hu is called on conn with the id that was
\* returned, each on the table it captured: the entry was inserted, and
\* every table is empty again
RemovesWhatItInserted(hs, hu, conn, raw) ==
    LET store0 == [t \in TableIds |-> EmptyMethods]
        s == subscribe_handler(hs, 1, conn, raw, KeepsSink, store0[hs.subscribers],
                               <<>>, TRUE)
        store1 == [store0 EXCEPT ![hs.subscribers] = s.table]
        u == unsubscribe_handler(hu, 1, conn, OneParam(draw_sub_id(raw)),
                                 store1[hu.subscribers], <<>>, TRUE)
        store2 == [store1 EXCEPT ![hu.subscribers] = u.table]
    IN /\ <<conn, draw_sub_id(raw)>> \in DOMAIN store1[hs.subscribers]
       /\ store2 = store0

\* C25: a successful register_subscription (on a plain module, or through
\* the dereference of a context module) or register_subscription_with_context
\* installs under the two names a subscribe closure and an unsubscribe closure
\* that captured the same Subscribers table, so that the unsubscribe called on
\* the same connection with the returned id removes the entry the subscribe
\* inserted; and no operation on modules changes or drops an installed
\* closure: a module keeps its closures, merge gives `self` the closures of
\* `other` as they were, with_context and into_module keep them, and
\* into_methods returns them as they were.
C25_PairSharesTable ==
    [][/\ \A m \in Slots, p \in SubPairs, cb \in Callbacks :
            ( /\ \/ RegisterSubscription(m, p[1], p[2], cb)
                 \/ RegisterSubscriptionWithContext(m, p[1], p[2], cb)
              /\ last'.res.ok )
            => LET hs == MethodsOf(modules'[m])[p[1]]
                   hu == MethodsOf(modules'[m])[p[2]]
               IN /\ hs.kind = "subscribe"
                  /\ hu.kind = "unsubscribe"
                  /\ hs.subscribers = hu.subscribers
                  /\ \A conn \in Conns, raw \in RawDraws :
                        RemovesWhatItInserted(hs, hu, conn, raw)
       /\ \A m \in Slots :
            (Live(modules[m]) /\ Live(modules'[m]))
            => \A name \in DOMAIN MethodsOf(modules[m]) :
                  /\ name \in DOMAIN MethodsOf(modules'[m])
                  /\ MethodsOf(modules'[m])[name] = MethodsOf(modules[m])[name]
       /\ \A m \in Slots, o \in Slots :
            (Merge(m, o) /\ last'.res.ok)
            => \A name \in DOMAIN MethodsOf(modules[o]) :
                  /\ name \in DOMAIN MethodsOf(modules'[m])
                  /\ MethodsOf(modules'[m])[name] = MethodsOf(modules[o])[name]
       /\ \A m \in Slots :
            IntoMethods(m) => methods' = MethodsOf(modules[m])]_vars

\* into_methods returned a pair of closures that
\* register_subscription_with_context installed, on one table, next to a
\* method registered without context; every table was allocated
C25_Witness ==
    /\ last.op = "into_methods"
    /\ {"sub", "unsub", "m"} \subseteq DOMAIN methods
    /\ methods["sub"].kind = "subscribe"
    /\ methods["sub"].ctx = TheCtx
    /\ methods["unsub"].kind = "unsubscribe"
    /\ methods["unsub"].subscribers = methods["sub"].subscribers
    /\ methods["m"].kind = "method"
    /\ methods["m"].ctx = NoCtx
    /\ nextTable = MaxTables

(***************************************************************************)
(* Properties of the client's subscription streams, checked under          *)
(* SpecClient.                                                              *)
(***************************************************************************)
\* the values next() returned so far on a stream, in order
YieldedValues(stream) ==
    LET some == SelectSeq(stream.yielded, LAMBDA y : y.some) IN
    [i \in 1..Len(some) |-> some[i].value]

\* C21: a subscription queue never holds more than its capacity k.  A
\* subscription whose consumer has read nothing is live and in the
\* subscriptions table up to its k-th push, and its (k+1)-th push makes it
\* terminal and removes it from the table.  In general a push that finds the
\* queue full does so; the pushes before it are not lost: next() yields them
\* in the order of the server, and yields the end of the stream only after
\* them, on a terminal subscription.  The client stays usable whatever the
\* consumers do: every call that is pending, a request or a subscribe, is
\* answered in the end.
C21_SlowConsumerPolicy ==
    /\ [](\A h \in DOMAIN streams :
            LET stream == streams[h]
                k == ws.capacity
                got == YieldedValues(stream) \o stream.items
            IN /\ Len(stream.items) <= k
               /\ \A i \in 1..Len(got) : got[i] = i
               /\ \A i \in 1..Len(stream.yielded) :
                     ~stream.yielded[i].some
                     => /\ i = Len(stream.yielded)
                        /\ stream.terminal
                        /\ stream.items = <<>>
               /\ IF stream.terminal
                     THEN /\ stream.pushes = Len(got) + 1
                          /\ stream.sub_id \notin DOMAIN ws.subscriptions
                     ELSE /\ stream.pushes = Len(got)
                          /\ stream.sub_id \in DOMAIN ws.subscriptions
                          /\ ws.subscriptions[stream.sub_id] = h
               /\ stream.yielded = <<>>
                  => /\ stream.pushes <= k + 1
                     /\ stream.terminal <=> stream.pushes = k + 1
                     /\ stream.terminal => Len(stream.items) = k)
    /\ \A id \in 1..MaxCalls :
          (id \in DOMAIN ws.pending) ~> (id \in DOMAIN ws.done /\ ws.done[id].ok)

\* with capacity k = MaxCapacity the first subscription was pushed k + 1
\* times (so it was not read before the queue was full), next() has yielded
\* its k queued values and then the end of the stream; the request made
\* after the subscribe was answered, and a second subscribe on the same
\* method succeeded, is in the table and has yielded a value
C21_Witness ==
    /\ ws.capacity = MaxCapacity
    /\ Len(streams) = 2
    /\ streams[1].terminal
    /\ streams[1].pushes = MaxCapacity + 1
    /\ Len(streams[1].yielded) = MaxCapacity + 1
    /\ YieldedValues(streams[1]) = [i \in 1..MaxCapacity |-> i]
    /\ streams[1].yielded[MaxCapacity + 1] = None
    /\ 2 \in DOMAIN ws.done
    /\ ws.done[2] = Answered(StrResult("hello"))
    /\ 3 \in DOMAIN ws.done
    /\ ws.done[3] = Subscribed(2)
    /\ streams[2].method = streams[1].method
    /\ streams[2].sub_id \in DOMAIN ws.subscriptions
    /\ streams[2].yielded = <<Some(1)>>

====
